---- MODULE Spec2Model ----
(***************************************************************************)
(* A model of the Mellifera interpreter (mf.py): the value heap with       *)
(* use-counted copy-on-write container storage, references, metamaps,      *)
(* for-loop iteration, the logical operators and the error trace.          *)
(*                                                                         *)
(* A Python Value object is a "handle" with an identity; Vector, Map and   *)
(* Set handles point to a shared storage object that carries the `uses`    *)
(* counter.  CPython frees a handle as soon as nothing refers to it, and   *)
(* the handle's __del__ then decrements `uses`.                            *)
(***************************************************************************)
EXTENDS Integers, Sequences, FiniteSets, TLC

\* ---------------------------------------------------------------- bounds
\* The number of writing statements (assignments, method calls) of a
\* modelled script; its `let` statements are not counted.
MaxSteps == 2

\* Capacity of the heap arrays, large enough for everything a script of
\* MaxSteps statements can keep alive at once (see HeapHasRoom).
MaxHandles == 4 * MaxSteps + 20
MaxStores == 3 * MaxSteps + 14
\* The number of `and`/`or` expressions a modelled script evaluates.
MaxExprs == 2
\* The depth of the call stack of a modelled script.
MaxDepth == 3

\* The number of constructs (function bodies, loops, try, catch and if
\* blocks) a modelled script nests.
MaxNest == 3
\* The number of times a modelled loop goes on to another iteration.
MaxIter == 2

\* The number of environments a modelled script creates.
MaxEnvs == 4

\* The number of elements in a modelled brace literal.
MaxElems == 3

\* The number of imports a modelled script has in progress at a time.
MaxImports == 3

\* The number of `=~` and `!~` expressions a modelled script evaluates.
MaxMatches == 3

\* The number of calls of source-defined builtins a modelled script makes.
MaxCalls == 2

\* The number of environments the modelled closure calls create, the
\* program's own included.
MaxCallEnvs == 3

\* The number of entries inserted into a container that is used as a key.
MaxEntries == 2

\* The number of values a script builds and asks the type name of.
MaxValues == 2

\* The largest argument of range(bgn, end) in a modelled script.
MaxRange == 2

\* The number of for loops a modelled script runs over one iterator.
MaxLoops == 2

\* The number of elements of the collection a loop with closures in its body
\* runs over, and the number of closures the body makes.
MaxTrips == 3
MaxClosures == 2

\* An index past the end of every vector a script can build.
BigIndex == MaxSteps + 4

HandleIds == 1..MaxHandles
StoreIds == 1..MaxStores

\* ---------------------------------------------------------------- values
\* An element slot holds either an immutable scalar or a Python reference
\* to a container handle.
NullV == [k |-> "null", v |-> 0]
NumV(n) == [k |-> "num", v |-> n]
ObjV(h) == [k |-> "obj", v |-> h]
IsObj(x) == x.k = "obj"

\* The field of an index, dot or scope access: a Number (`x[i]`) or a String
\* (`x["f"]`, `x.f`, `x::f`).
IdxF(i) == [t |-> "idx", i |-> i, s |-> ""]
KeyF(k) == [t |-> "key", i |-> 0, s |-> k]

FreeHandle == [kind |-> "free", data |-> 0, meta |-> 0]
FreeStore == [live |-> FALSE, uses |-> 0, elems |-> <<>>, keys |-> <<>>]

VARIABLES
    handles,    \* handle id -> [kind, data, meta]
    stores,     \* storage id -> [live, uses, elems, keys]
    env,        \* script variable -> handle id (0: not defined)
    refOf,      \* history: the variable a reference variable was taken from
    steps,      \* the number of writing statements executed so far
    last,       \* the statement executed last and its outcome
    loop,       \* the for loop being executed, with its history
    lg,         \* the `and`/`or` expression being evaluated
    tr,         \* the call stack and the Error travelling up it
    cf,         \* the statements being executed and the signal they yield
    sc,         \* the environments (scopes) and the one statements run in
    ps,         \* the `new T <brace literal>` being parsed and evaluated
    im,         \* the module-info map and the imports in progress
    rx,         \* the last-match slot and the `=~`/`!~` evaluated so far
    bt,         \* module initialisation: what is installed and evaluated
    cl,         \* the environments of closure calls and the call made last
    hv,         \* two values, and the lookup of one under the other as key
    tn,         \* values built by literals and the names typename gave them
    runs,       \* the completed loops over an iterator: [before, after, seen]
    fl          \* the scopes of a for loop and the closures made in its body

vars ==
    <<handles, stores, env, refOf, steps, last, loop, lg, tr, cf, sc, ps, im,
      rx, bt, cl, hv, tn, runs, fl>>
heapVars == <<handles, stores, env, refOf, steps, last, loop>>
\* What the steps of one part of the interpreter leave alone.
othersOfHeap == <<lg, tr, cf, sc, ps, im, rx, bt, cl, hv, tn, runs, fl>>
othersOfLogic == <<heapVars, tr, cf, sc, ps, im, rx, bt, cl, hv, tn, runs, fl>>
othersOfTrace == <<heapVars, lg, cf, sc, ps, im, rx, bt, cl, hv, tn, runs, fl>>
othersOfFlow == <<heapVars, lg, tr, sc, ps, im, rx, bt, cl, hv, tn, runs, fl>>
othersOfScope == <<heapVars, lg, tr, cf, ps, im, rx, bt, cl, hv, tn, runs, fl>>
othersOfParse == <<heapVars, lg, tr, cf, sc, im, rx, bt, cl, hv, tn, runs, fl>>
othersOfImport == <<heapVars, lg, tr, cf, sc, ps, rx, bt, cl, hv, tn, runs, fl>>
othersOfRegexp == <<heapVars, lg, tr, cf, sc, ps, im, bt, cl, hv, tn, runs, fl>>
othersOfBoot == <<heapVars, lg, tr, cf, sc, ps, im, rx, cl, hv, tn, runs, fl>>
othersOfCall == <<heapVars, lg, tr, cf, sc, ps, im, rx, bt, hv, tn, runs, fl>>
othersOfHash == <<heapVars, lg, tr, cf, sc, ps, im, rx, bt, cl, tn, runs, fl>>
othersOfTypename == <<heapVars, lg, tr, cf, sc, ps, im, rx, bt, cl, hv, runs, fl>>
othersOfRuns == <<lg, tr, cf, sc, ps, im, rx, bt, cl, hv, tn, fl>>
othersOfLoopScope == <<heapVars, lg, tr, cf, sc, ps, im, rx, bt, cl, hv, tn, runs>>

Heap == [hs |-> handles, ss |-> stores]

IsContainerKind(kind) == kind \in {"vector", "map", "set", "metamap"}
IsMapKind(kind) == kind \in {"map", "metamap"}

\* ------------------------------------------------------------ allocation
\* Names the value v as the parameter of F: F's body may use it many times.
Bind(v, F(_)) == F(v)

FreeHandles(H) == {h \in HandleIds : H.hs[h].kind = "free"}
FreeStores(H) == {s \in StoreIds : ~H.ss[s].live}
Min(S) == CHOOSE x \in S : \A y \in S : x <= y

\* SharedVectorData/SharedMapData/SharedSetData.__init__: uses starts at 0.
NewStorage(H, elems, keys) ==
    LET s == Min(FreeStores(H))
    IN [H |-> [H EXCEPT !.ss[s] = [live |-> TRUE, uses |-> 0,
                                   elems |-> elems, keys |-> keys]],
        out |-> s]

\* Vector/Map/Set.__init__: adopt the storage and increment its uses.
NewContainer(H, kind, s, meta) ==
    LET h == Min(FreeHandles(H))
    IN [H |-> [H EXCEPT !.hs[h] = [kind |-> kind, data |-> s, meta |-> meta],
                        !.ss[s].uses = @ + 1],
        out |-> h]

\* Reference.new / Reference.__init__: an alias of the target handle.
NewReference(H, target) ==
    LET h == Min(FreeHandles(H))
    IN [H |-> [H EXCEPT !.hs[h] = [kind |-> "reference", data |-> target,
                                   meta |-> 0]],
        out |-> h]

\* A Reference copy that takes a private copy of its referent.
CopyHandle_CloneReferent(H, h) ==
    LET o == H.hs[h]
    IN IF o.kind = "reference"
       THEN LET c == NewContainer(H, H.hs[o.data].kind, H.hs[o.data].data,
                                  H.hs[o.data].meta)
            IN NewReference(c.H, c.out)
       ELSE NewContainer(H, o.kind, o.data, o.meta)

\* __copy__ of a Value object: a container copy is a new handle on the SAME
\* storage (uses + 1), a Reference copy is a new handle on the same referent,
\* a MetaMap copy is the MetaMap itself.
CopyHandle(H, h) ==
    LET o == H.hs[h]
    IN IF o.kind = "metamap" THEN [H |-> H, out |-> h]
       ELSE IF o.kind = "reference" THEN NewReference(H, o.data)
       ELSE NewContainer(H, o.kind, o.data, o.meta)

CopyVal(H, x) ==
    IF IsObj(x)
    THEN Bind(CopyHandle(H, x.v), LAMBDA c : [H |-> c.H, out |-> ObjV(c.out)])
    ELSE [H |-> H, out |-> x]

RECURSIVE CopyVals(_, _)
CopyVals(H, xs) ==
    IF xs = <<>> THEN [H |-> H, out |-> <<>>]
    ELSE Bind(CopyVal(H, Head(xs)), LAMBDA c :
            Bind(CopyVals(c.H, Tail(xs)), LAMBDA r :
               [H |-> r.H, out |-> <<c.out>> \o r.out]))

\* Shared*Data.__copy__: a new storage whose elements are copies (new
\* handles, still sharing the nested storage) of the old elements.
CopyStorage(H, s) ==
    Bind(CopyVals(H, H.ss[s].elems), LAMBDA c :
       NewStorage(c.H, c.out, H.ss[s].keys))

\* ------------------------------------------------------- sequence helpers
KeyIndex(keys, k) ==
    IF \E i \in 1..Len(keys) : keys[i] = k
    THEN CHOOSE i \in 1..Len(keys) : keys[i] = k
    ELSE 0
RemoveAt(seq, i) == SubSeq(seq, 1, i - 1) \o SubSeq(seq, i + 1, Len(seq))
\* Python list.insert(i, x): an index past the end appends.
InsertAt(seq, i, x) ==
    LET n == IF i > Len(seq) THEN Len(seq) ELSE i
    IN SubSeq(seq, 1, n) \o <<x>> \o SubSeq(seq, n + 1, Len(seq))

\* A mutator that writes into the storage it finds, shared or not.
CowData_InPlace(H, h) == H

\* A copy-on-write step that forgets to leave the old storage.
CowData_KeepCount(H, h) ==
    IF H.ss[H.hs[h].data].uses > 1
    THEN Bind(CopyStorage(H, H.hs[h].data),
              LAMBDA c : [c.H EXCEPT !.hs[h].data = c.out,
                                     !.ss[c.out].uses = @ + 1])
    ELSE H

\* The copy-on-write step of every mutator (Vector.cow and its inlined
\* copies): a handle on shared storage leaves it and adopts a clone.
CowData(H, h) ==
    IF H.ss[H.hs[h].data].uses > 1
    THEN Bind(CopyStorage([H EXCEPT !.ss[H.hs[h].data].uses = @ - 1],
                          H.hs[h].data),
              LAMBDA c : [c.H EXCEPT !.hs[h].data = c.out,
                                     !.ss[c.out].uses = @ + 1])
    ELSE H

\* ---------------------------------------------------- container mutators
\* Each returns the new heap and "ok" or "error" (a Python exception that
\* the caller turns into a Mellifera Error).

\* Vector.__setitem__ with a non-negative integer index: copy-on-write
\* first, then list.__setitem__, which raises IndexError past the end.
VectorSetItem(H, h, i, x) ==
    Bind(CowData(H, h), LAMBDA H1 :
       IF i < Len(H1.ss[H1.hs[h].data].elems)
       THEN [H |-> [H1 EXCEPT !.ss[H1.hs[h].data].elems[i + 1] = x],
             res |-> "ok"]
       ELSE [H |-> H1, res |-> "error"])

\* Map.__setitem__: copy-on-write, then dict assignment (an existing key
\* keeps its position, a new key goes last).
MapSetItem(H, h, k, x) ==
    Bind(CowData(H, h), LAMBDA H1 :
       LET s == H1.hs[h].data
           i == KeyIndex(H1.ss[s].keys, k)
       IN IF i > 0
          THEN [H |-> [H1 EXCEPT !.ss[s].elems[i] = x], res |-> "ok"]
          ELSE [H |-> [H1 EXCEPT !.ss[s].elems = Append(@, x),
                                 !.ss[s].keys = Append(@, k)],
                res |-> "ok"])

\* A MetaMap that inherits __setitem__ from Map.
MetaMapSetItem_Inherited(H, h, k, x) ==
    Bind(CowData(H, h), LAMBDA H1 :
       LET s == H1.hs[h].data
           i == KeyIndex(H1.ss[s].keys, k)
       IN IF i > 0
          THEN [H |-> [H1 EXCEPT !.ss[s].elems[i] = x], res |-> "ok"]
          ELSE [H |-> [H1 EXCEPT !.ss[s].elems = Append(@, x),
                                 !.ss[s].keys = Append(@, k)],
                res |-> "ok"])

\* MetaMap.__setitem__: always raises, nothing is touched.
MetaMapSetItem(H, h, k, x) == [H |-> H, res |-> "error"]

\* __setitem__ as Python dispatches it on the class of the object.  Vector
\* raises KeyError for a non-number key, Set and Reference inherit
\* Value.__setitem__, which raises NotImplementedError.
SetItem(H, h, field, x) ==
    LET kind == H.hs[h].kind
    IN IF kind = "metamap" THEN MetaMapSetItem(H, h, field.s, x)
       ELSE IF kind = "map" /\ field.t = "key" THEN MapSetItem(H, h, field.s, x)
       ELSE IF kind = "vector" /\ field.t = "idx"
       THEN VectorSetItem(H, h, field.i, x)
       ELSE [H |-> H, res |-> "error"]

\* Map.__delitem__ (MetaMap does not override it): copy-on-write, then
\* dict deletion, KeyError when the key is missing.
MapDelItem(H, h, k) ==
    Bind(CowData(H, h), LAMBDA H1 :
       LET s == H1.hs[h].data
           i == KeyIndex(H1.ss[s].keys, k)
       IN IF i > 0
          THEN [H |-> [H1 EXCEPT !.ss[s].elems = RemoveAt(@, i),
                                 !.ss[s].keys = RemoveAt(@, i)],
                res |-> "ok"]
          ELSE [H |-> H1, res |-> "error"])

\* Set.insert / Set.remove
SetInsert(H, h, k) ==
    Bind(CowData(H, h), LAMBDA H1 :
       LET s == H1.hs[h].data
           i == KeyIndex(H1.ss[s].keys, k)
       IN IF i > 0
          THEN [H |-> H1, res |-> "ok"]
          ELSE [H |-> [H1 EXCEPT !.ss[s].elems = Append(@, NullV),
                                 !.ss[s].keys = Append(@, k)],
                res |-> "ok"])

SetRemove(H, h, k) ==
    Bind(CowData(H, h), LAMBDA H1 :
       LET s == H1.hs[h].data
           i == KeyIndex(H1.ss[s].keys, k)
       IN IF i > 0
          THEN [H |-> [H1 EXCEPT !.ss[s].elems = RemoveAt(@, i),
                                 !.ss[s].keys = RemoveAt(@, i)],
                res |-> "ok"]
          ELSE [H |-> H1, res |-> "error"])

\* __getitem__ on the class of the object: the element OBJECT itself, no
\* copy.  out = NullV with res = "error" stands for the raised exception.
GetItem(H, h, field) ==
    LET o == H.hs[h]
    IN IF o.kind = "vector" /\ field.t = "idx"
       THEN IF field.i < Len(H.ss[o.data].elems)
            THEN [res |-> "ok", out |-> H.ss[o.data].elems[field.i + 1]]
            ELSE [res |-> "error", out |-> NullV]
       ELSE IF IsMapKind(o.kind) /\ field.t = "key"
       THEN LET i == KeyIndex(H.ss[o.data].keys, field.s)
            IN IF i > 0 THEN [res |-> "ok", out |-> H.ss[o.data].elems[i]]
               ELSE [res |-> "error", out |-> NullV]
       ELSE [res |-> "error", out |-> NullV]

\* The storage behind variable x (behind its referent for a reference) is
\* shared with another handle.
TargetOf(H, h) == IF H.hs[h].kind = "reference" THEN H.hs[h].data ELSE h
IsShared(H, h) == H.ss[H.hs[TargetOf(H, h)].data].uses > 1

\* ------------------------------------------------------------- builtins
\* Builtin.typed_argument_reference: the argument must be a Reference whose
\* referent is an instance of the expected class (MetaMap is a Map).
IsRefTo(H, ref, kinds) ==
    /\ H.hs[ref].kind = "reference"
    /\ H.hs[H.hs[ref].data].kind \in kinds

builtin_vector_push(H, ref, x) ==
    IF ~IsRefTo(H, ref, {"vector"}) THEN [H |-> H, res |-> "error"]
    ELSE Bind(IF IsShared(H, ref) THEN CowData(H, H.hs[ref].data) ELSE H,
              LAMBDA H1 :
                 [H |-> [H1 EXCEPT !.ss[H1.hs[H.hs[ref].data].data].elems =
                                      Append(@, x)],
                  res |-> "ok"])

builtin_vector_pop(H, ref) ==
    IF ~IsRefTo(H, ref, {"vector"}) THEN [H |-> H, res |-> "error"]
    ELSE Bind(IF IsShared(H, ref) THEN CowData(H, H.hs[ref].data) ELSE H,
              LAMBDA H1 :
                 LET s == H1.hs[H.hs[ref].data].data
                     n == Len(H1.ss[s].elems)
                 IN IF n = 0 THEN [H |-> H1, res |-> "error"]
                    ELSE [H |-> [H1 EXCEPT !.ss[s].elems = SubSeq(@, 1, n - 1)],
                          res |-> "ok"])

builtin_vector_insert(H, ref, i, x) ==
    IF ~IsRefTo(H, ref, {"vector"}) THEN [H |-> H, res |-> "error"]
    ELSE Bind(IF IsShared(H, ref) THEN CowData(H, H.hs[ref].data) ELSE H,
              LAMBDA H1 :
                 [H |-> [H1 EXCEPT !.ss[H1.hs[H.hs[ref].data].data].elems =
                                      InsertAt(@, i, x)],
                  res |-> "ok"])

builtin_vector_remove(H, ref, i) ==
    IF ~IsRefTo(H, ref, {"vector"}) THEN [H |-> H, res |-> "error"]
    ELSE Bind(IF IsShared(H, ref) THEN CowData(H, H.hs[ref].data) ELSE H,
              LAMBDA H1 :
                 LET s == H1.hs[H.hs[ref].data].data
                 IN IF i < Len(H1.ss[s].elems)
                    THEN [H |-> [H1 EXCEPT !.ss[s].elems = RemoveAt(@, i + 1)],
                          res |-> "ok"]
                    ELSE [H |-> H1, res |-> "error"])

builtin_map_insert(H, ref, k, x) ==
    IF ~IsRefTo(H, ref, {"map", "metamap"}) THEN [H |-> H, res |-> "error"]
    ELSE SetItem(H, H.hs[ref].data, KeyF(k), x)

\* `value = copy(map[k])` raises KeyError for a missing key before the
\* map is touched; `del map[k]` is Map.__delitem__.
builtin_map_remove(H, ref, k) ==
    IF ~IsRefTo(H, ref, {"map", "metamap"}) THEN [H |-> H, res |-> "error"]
    ELSE IF GetItem(H, H.hs[ref].data, KeyF(k)).res = "error"
    THEN [H |-> H, res |-> "error"]
    ELSE MapDelItem(H, H.hs[ref].data, k)

builtin_set_insert(H, ref, k) ==
    IF ~IsRefTo(H, ref, {"set"}) THEN [H |-> H, res |-> "error"]
    ELSE SetInsert(H, H.hs[ref].data, k)

builtin_set_remove(H, ref, k) ==
    IF ~IsRefTo(H, ref, {"set"}) THEN [H |-> H, res |-> "error"]
    ELSE SetRemove(H, H.hs[ref].data, k)

\* --------------------------------------------------- garbage collection
\* The handles a handle refers to: its referent, its metamap and the
\* container objects among the elements of its storage.
Succ(H, h) ==
    LET o == H.hs[h]
    IN IF o.kind = "reference" THEN {o.data}
       ELSE IF IsContainerKind(o.kind)
       THEN {H.ss[o.data].elems[i].v :
                i \in {j \in 1..Len(H.ss[o.data].elems) :
                          IsObj(H.ss[o.data].elems[j])}}
            \cup (IF o.meta # 0 THEN {o.meta} ELSE {})
       ELSE {}

RECURSIVE Reach(_, _, _)
Reach(H, frontier, seen) ==
    IF frontier = {} THEN seen
    ELSE LET new == (UNION {Succ(H, h) : h \in frontier}) \ seen
         IN Reach(H, new, seen \cup new)

\* CPython reference counting: every handle no longer reachable from the
\* roots is deallocated at once; Vector/Map/Set.__del__ decrements the uses
\* counter of its storage, and a storage nothing points to is released.
Collect(H, roots) ==
    Bind(Reach(H, roots, roots), LAMBDA live :
       LET dead == {h \in HandleIds : H.hs[h].kind # "free" /\ h \notin live}
           drop(s) == Cardinality({h \in HandleIds :
                                      /\ H.hs[h].kind # "free"
                                      /\ h \notin live
                                      /\ IsContainerKind(H.hs[h].kind)
                                      /\ H.hs[h].data = s})
           held(s) == \E h \in live : /\ IsContainerKind(H.hs[h].kind)
                                      /\ H.hs[h].data = s
       IN [hs |-> [h \in HandleIds |->
                      IF h \in dead THEN FreeHandle ELSE H.hs[h]],
           ss |-> [s \in StoreIds |->
                      IF H.ss[s].live /\ held(s)
                      THEN [H.ss[s] EXCEPT !.uses = @ - drop(s)]
                      ELSE FreeStore]])

\* ------------------------------------------------------------ observation
\* What a script can observe of a value by reading it: kind, metamap, keys
\* and, recursively, elements.  Handle and storage identities do not show.
RECURSIVE ObsH(_, _)
ObsV(H, x) == IF IsObj(x) THEN ObsH(H, x.v) ELSE x
ObsH(H, h) ==
    LET o == H.hs[h]
    IN IF o.kind = "reference"
       THEN [kind |-> "reference", meta |-> 0, keys |-> <<>>,
             elems |-> <<o.data>>]
       ELSE [kind |-> o.kind, meta |-> o.meta, keys |-> H.ss[o.data].keys,
             elems |-> [i \in 1..Len(H.ss[o.data].elems) |->
                           ObsV(H, H.ss[o.data].elems[i])]]

\* Nesting depth of a container (1: all elements are scalars).
RECURSIVE DepthH(_, _)
DepthH(H, h) ==
    LET o == H.hs[h]
        inner == {H.ss[o.data].elems[i].v :
                     i \in {j \in 1..Len(H.ss[o.data].elems) :
                               IsObj(H.ss[o.data].elems[j])}}
    IN IF inner = {} THEN 1
       ELSE 1 + (CHOOSE d \in {DepthH(H, g) : g \in inner} :
                    \A e \in {DepthH(H, g) : g \in inner} : e <= d)

\* --------------------------------------------------------- method lookup
VectorMethods == {"push", "pop", "insert", "remove", "count"}
MapMethods == {"insert", "remove", "count"}
SetMethods == {"insert", "remove", "count"}

NotFound == [found |-> FALSE, builtin |-> <<>>, val |-> NullV]
FoundBuiltin(ty, name) == [found |-> TRUE, builtin |-> <<ty, name>>, val |-> NullV]
FoundValue(x) == [found |-> TRUE, builtin |-> <<>>, val |-> x]

\* The singleton metamaps of the built-in kinds (_VECTOR_META, _MAP_META,
\* _SET_META; _REFERENCE_META has no entries).
BuiltinMetaGet(kind, name) ==
    IF kind = "vector" /\ name \in VectorMethods THEN FoundBuiltin("vector", name)
    ELSE IF kind = "map" /\ name \in MapMethods THEN FoundBuiltin("map", name)
    ELSE IF kind = "set" /\ name \in SetMethods THEN FoundBuiltin("set", name)
    ELSE NotFound

\* value.meta[name]: meta = 0 is the kind's own singleton metamap, a MetaMap
\* object itself has no metamap, any other meta is a `type` metamap.
MetaGet(H, h, name) ==
    IF H.hs[h].kind = "metamap" THEN NotFound
    ELSE IF H.hs[h].meta = 0 THEN BuiltinMetaGet(H.hs[h].kind, name)
    ELSE Bind(GetItem(H, H.hs[h].meta, KeyF(name)), LAMBDA g :
            IF g.res = "ok" THEN FoundValue(g.out) ELSE NotFound)

\* AstExpressionFunctionCall.eval for a callee `store.name`: the element of
\* store, else the entry of store's metamap, else for a Reference the entry
\* of the referent's metamap, where the Reference itself becomes self.
MethodLookup(H, store, name) ==
    Bind(GetItem(H, store, KeyF(name)), LAMBDA direct :
       IF direct.res = "ok"
       THEN [fn |-> FoundValue(direct.out), selfIsStore |-> FALSE]
       ELSE Bind(MetaGet(H, store, name), LAMBDA meta :
               IF meta.found THEN [fn |-> meta, selfIsStore |-> FALSE]
               ELSE IF H.hs[store].kind = "reference"
               THEN [fn |-> MetaGet(H, H.hs[store].data, name),
                     selfIsStore |-> TRUE]
               ELSE [fn |-> NotFound, selfIsStore |-> FALSE]))

\* Builtin.call on a host builtin of the container metamaps.  arg is the
\* record of the remaining arguments [i, k, x].
CallBuiltin(H, fn, self, arg) ==
    IF fn = <<"vector", "push">> THEN builtin_vector_push(H, self, arg.x)
    ELSE IF fn = <<"vector", "pop">> THEN builtin_vector_pop(H, self)
    ELSE IF fn = <<"vector", "insert">> THEN builtin_vector_insert(H, self, arg.i, arg.x)
    ELSE IF fn = <<"vector", "remove">> THEN builtin_vector_remove(H, self, arg.i)
    ELSE IF fn = <<"map", "insert">> THEN builtin_map_insert(H, self, arg.k, arg.x)
    ELSE IF fn = <<"map", "remove">> THEN builtin_map_remove(H, self, arg.k)
    ELSE IF fn = <<"set", "insert">> THEN builtin_set_insert(H, self, arg.k)
    ELSE IF fn = <<"set", "remove">> THEN builtin_set_remove(H, self, arg.k)
    ELSE [H |-> H, res |-> IF IsRefTo(H, self, {fn[1]}) \/
                              (fn[1] = "map" /\ IsRefTo(H, self, {"metamap"}))
                           THEN "ok" ELSE "error"]

\* -------------------------------------------------------------- literals
\* The container literals the modelled scripts use.  An element is a number
\* or, [k |-> "lit"], an inner literal of the table InnerLits.
LitV(i) == [k |-> "lit", v |-> i]
InnerLits ==
    << [kind |-> "vector", keys |-> <<>>, elems |-> <<NumV(1)>>],
       [kind |-> "vector", keys |-> <<>>, elems |-> <<NumV(2)>>],
       [kind |-> "map", keys |-> <<"g">>, elems |-> <<NumV(1)>>] >>
Literals ==
    { [kind |-> "vector", keys |-> <<>>, elems |-> <<NumV(1), NumV(2)>>],
      [kind |-> "vector", keys |-> <<>>, elems |-> <<LitV(1), LitV(2)>>],
      [kind |-> "map", keys |-> <<"f">>, elems |-> <<NumV(1)>>],
      [kind |-> "map", keys |-> <<"f">>, elems |-> <<LitV(3)>>],
      [kind |-> "set", keys |-> <<"f", "g">>, elems |-> <<NullV, NullV>>] }

\* AstExpressionVector/Map/Set.eval: every element is evaluated and its COPY
\* is stored; Vector.new/Map.new/Set.new then wraps the fresh storage.
RECURSIVE BuildElems(_, _)
BuildLiteral(H, lit) ==
    Bind(BuildElems(H, lit.elems), LAMBDA e :
       Bind(NewStorage(e.H, e.out, lit.keys), LAMBDA s :
          NewContainer(s.H, lit.kind, s.out, 0)))
BuildElems(H, xs) ==
    IF xs = <<>> THEN [H |-> H, out |-> <<>>]
    ELSE Bind(IF Head(xs).k = "lit"
              THEN Bind(BuildLiteral(H, InnerLits[Head(xs).v]), LAMBDA b :
                      CopyVal(b.H, ObjV(b.out)))
              ELSE [H |-> H, out |-> Head(xs)],
              LAMBDA t :
                 Bind(BuildElems(t.H, Tail(xs)), LAMBDA r :
                    [H |-> r.H, out |-> <<t.out>> \o r.out]))

\* ------------------------------------------------------ logical operators
\* What an operand expression evaluates to: a Boolean, a value of another
\* type (a Number, a String) or an Error.  "none": not evaluated.
Operands == {"true", "false", "num", "str", "error"}
IsBool(x) == x \in {"true", "false"}

NoLogic ==
    [pc |-> "idle", op |-> "", l |-> "none", r |-> "none", lv |-> "none",
     rv |-> "none", res |-> "none", effects |-> 0, effects0 |-> 0, n |-> 0]

\* An `and` that always goes on to its right operand.
AndLhs_Eager(lv) == IF lv = "error" THEN "error" ELSE "more"

\* AstExpressionAnd.eval up to the evaluation of rhs ("more": go on).
AndLhs(lv) ==
    IF lv = "error" THEN "error"
    ELSE IF lv = "false" THEN "false"
    ELSE "more"

\* AstExpressionAnd.eval after the evaluation of rhs.
AndRhs(lv, rv) ==
    IF rv = "error" THEN "error"
    ELSE IF rv = "false" THEN "false"
    ELSE IF IsBool(lv) /\ IsBool(rv)
    THEN (IF lv = "true" /\ rv = "true" THEN "true" ELSE "false")
    ELSE "error"

\* AstExpressionOr.eval up to the evaluation of rhs.
OrLhs(lv) ==
    IF lv = "error" THEN "error"
    ELSE IF lv = "true" THEN "true"
    ELSE "more"

\* AstExpressionOr.eval after the evaluation of rhs.
OrRhs(lv, rv) ==
    IF rv = "error" THEN "error"
    ELSE IF rv = "true" THEN "true"
    ELSE IF IsBool(lv) /\ IsBool(rv)
    THEN (IF lv = "true" \/ rv = "true" THEN "true" ELSE "false")
    ELSE "error"

\* ------------------------------------------------------------- call trace
\* A frame is a call in progress: the callee, its kind ("closure": a
\* Function; "source": a BuiltinFromSource; "host": a Builtin written in
\* Python) and the location its caller passed to call() (0: None).
Closures == {"f", "g"}
SourceBuiltins == {"vector::sorted"}
HostBuiltins == {"println"}
Sites == {1, 2}
Frame(fn, kind, site) == [fn |-> fn, kind |-> kind, site |-> site]
TraceElement(location, function) == [loc |-> location, fn |-> function]
NoFrame == Frame("", "none", 0)

NoTrace ==
    [mode |-> "run", stack |-> <<>>, err |-> <<>>, chain |-> <<>>,
     raisedBy |-> "", popped |-> NoFrame, dropped |-> 0]

\* A BuiltinFromSource that returns the Error of its source as it is.
BuiltinFromSource_function_Keep(trace) == trace

\* BuiltinFromSource.function on an Error: result.trace = list().
BuiltinFromSource_function(trace) == <<>>

\* A call() that puts its element in front of the trace.
CallAppend_Front(trace, f) == <<TraceElement(f.site, f.fn)>> \o trace

\* call() on an Error result: trace.append(TraceElement(location, function)).
CallAppend(trace, f) == Append(trace, TraceElement(f.site, f.fn))

\* The trace of an Error after it left frame f.  A BuiltinFromSource calls
\* its evaluated function with no location, clears the trace of the Error
\* that comes back, and the call() that entered it appends the builtin.
LeaveFrame(trace, f) ==
    IF f.kind = "source"
    THEN CallAppend(
            BuiltinFromSource_function(
               CallAppend(trace, Frame(<<"evaluated", f.fn>>, "closure", 0))),
            f)
    ELSE CallAppend(trace, f)

\* ----------------------------------------------------------- control flow
\* What a statement yields: nothing ("none"), Return, Break, Continue or an
\* Error.  v is the value of a Return and the payload of an Error; org is
\* the number of function bodies around the statement that produced it.
Payloads == {"null", "a"}
BreakOutside == "attempted to break outside of a loop"
ContinueOutside == "attempted to continue outside of a loop"
Signal(k, v, org) == [k |-> k, v |-> v, org |-> org]
NoSignal == Signal("none", "", 0)

\* A construct being executed: the body of a called function, the block of
\* a loop (it: the iterations begun before this one), a try block (id: the
\* catch has an identifier), a catch block (bound: what its identifier is
\* bound to) or the block of an if.
FlowFrame(kind, it, id, bound) ==
    [kind |-> kind, it |-> it, id |-> id, bound |-> bound, calls |-> 0,
     coll |-> ""]

\* The for loop over an iterator ("forit": it elements were bound, the
\* last one is bound; calls: the calls of next made; coll: the kind of
\* value the iterator is), the body of its next metafunction ("next",
\* bound: the argument of the call), and the for loop over a Number
\* ("fornum": coll is the Number, it the value of K, bound the values K has
\* had).
ForIterFrame(coll, it, elem, calls) ==
    [kind |-> "forit", it |-> it, id |-> FALSE, bound |-> elem,
     calls |-> calls, coll |-> coll]
NextFrame ==
    [kind |-> "next", it |-> 0, id |-> FALSE, bound |-> "&iterator",
     calls |-> 0, coll |-> ""]
ForNumFrame(n, i, seen) ==
    [kind |-> "fornum", it |-> i, id |-> FALSE, bound |-> seen,
     calls |-> 0, coll |-> n]
NoFlowFrame == FlowFrame("none", 0, FALSE, "")
NoEvent == [frame |-> NoFlowFrame, in |-> NoSignal, rest |-> <<>>]

NoFlow ==
    [st |-> "run", stack |-> <<>>, sig |-> NoSignal, ev |-> NoEvent,
     result |-> NoSignal]

\* The number of function bodies among the constructs of a stack.
FnDepth(stack) ==
    Cardinality({i \in 1..Len(stack) : stack[i].kind \in {"function", "next"}})

\* A try statement that hands every signal of its block to the catch block.
AstStatementTry_CatchAll(f, sig) ==
    [catch |-> TRUE, bound |-> IF f.id THEN sig.v ELSE "unbound",
     sig |-> NoSignal]

\* AstStatementTry.eval on the result of the try block: Return, Break and
\* Continue are returned; an Error starts the catch block in a new
\* Environment where the identifier is let to result.value.
AstStatementTry_eval(f, sig) ==
    IF sig.k \in {"return", "break", "continue"}
    THEN [catch |-> FALSE, bound |-> "", sig |-> sig]
    ELSE IF sig.k = "error"
    THEN [catch |-> TRUE, bound |-> IF f.id THEN sig.v ELSE "unbound",
          sig |-> NoSignal]
    ELSE [catch |-> FALSE, bound |-> "", sig |-> NoSignal]

\* The loops of AstStatementFor.eval and AstStatementWhile.eval on the
\* result of the block: what the loop does and what the statement yields.
LoopOnResult(sig) ==
    IF sig.k = "return" THEN [do |-> "exit", sig |-> sig]
    ELSE IF sig.k = "break" THEN [do |-> "exit", sig |-> NoSignal]
    ELSE IF sig.k = "continue" THEN [do |-> "advance", sig |-> NoSignal]
    ELSE IF sig.k = "error" THEN [do |-> "exit", sig |-> sig]
    ELSE [do |-> "advance", sig |-> NoSignal]

\* A call() that returns the Break or Continue of the body as it is.
CallOnResult_PassThrough(sig) ==
    IF sig.k = "return" THEN [value |-> sig.v, sig |-> NoSignal]
    ELSE IF sig.k \in {"break", "continue", "error"}
    THEN [value |-> "", sig |-> sig]
    ELSE [value |-> "null", sig |-> NoSignal]

\* call() on the result of function.ast.body.eval(env): the value of a
\* Return, an Error for Break and for Continue, the Error, or else Null.
CallOnResult(sig) ==
    IF sig.k = "return" THEN [value |-> sig.v, sig |-> NoSignal]
    ELSE IF sig.k = "break"
    THEN [value |-> "", sig |-> Signal("error", BreakOutside, sig.org)]
    ELSE IF sig.k = "continue"
    THEN [value |-> "", sig |-> Signal("error", ContinueOutside, sig.org)]
    ELSE IF sig.k = "error" THEN [value |-> "", sig |-> sig]
    ELSE [value |-> "null", sig |-> NoSignal]

\* AstProgram.eval on the result of a statement.
ProgramOnResult(sig) ==
    IF sig.k = "return" THEN Signal("value", sig.v, sig.org)
    ELSE IF sig.k = "break" THEN Signal("error", BreakOutside, sig.org)
    ELSE IF sig.k = "continue" THEN Signal("error", ContinueOutside, sig.org)
    ELSE IF sig.k = "error" THEN sig
    ELSE NoSignal

\* The kinds of value the modelled for statements are given besides
\* Numbers, and the Numbers: integers and the non-integers 1.5, NaN, Inf.
CollKinds == {"vector", "string"}
Number(cls, n) == [cls |-> cls, n |-> n]
ForNumbers ==
    {Number("int", n) : n \in (0 - 2)..(MaxIter + 1)}
    \cup {Number(c, 0) : c \in {"frac", "nan", "inf"}}

\* float(collection.data).is_integer()
is_integer(x) == x.cls = "int"

\* len(range(int(float(collection.data))))
RangeLen(x) == IF x.n > 0 THEN x.n ELSE 0

\* The branch AstStatementFor.eval takes: the iterator branch when the
\* metamap of the collection has a callable next, else by kind.
ForBranch(hasNext, kind) ==
    IF hasNext THEN "iterator"
    ELSE IF kind \in {"number", "vector", "map", "set"} THEN kind
    ELSE "error"

\* A for loop that ends at any Error of next.
ForOnIterated_AnyError(r) ==
    IF r.sig.k = "error" THEN [do |-> "end", sig |-> NoSignal, elem |-> ""]
    ELSE [do |-> "body", sig |-> NoSignal, elem |-> r.value]

\* The iterator branch of AstStatementFor.eval on what call(next) returned:
\* an Error with a Null payload ends the loop, another Error is returned,
\* a value is let to the loop identifier and the block is evaluated.
ForOnIterated(r) ==
    IF r.sig.k = "error"
    THEN (IF r.sig.v = "null"
          THEN [do |-> "end", sig |-> NoSignal, elem |-> ""]
          ELSE [do |-> "exit", sig |-> r.sig, elem |-> ""])
    ELSE [do |-> "body", sig |-> NoSignal, elem |-> r.value]

\* The Number branch of AstStatementFor.eval before the first iteration:
\* an Error for a non-integer, else range(int(n)).
ForOnNumber(x) ==
    IF ~is_integer(x) THEN "error"
    ELSE IF RangeLen(x) = 0 THEN "empty"
    ELSE "loop"

\* The Number branch going on after the block: the next i of the range, or
\* the end of the loop.
ForNumAdvance(stack) ==
    IF stack[Len(stack)].it + 1 < RangeLen(stack[Len(stack)].coll)
    THEN [stack EXCEPT ![Len(stack)] =
             ForNumFrame(@.coll, @.it + 1, Append(@.bound, @.it + 1))]
    ELSE SubSeq(stack, 1, Len(stack) - 1)

\* ----------------------------------------------------------- environments
\* An Environment: the environment around it (0: none) and its store, a
\* map from names to values (Absent: the store has no such key).  The
\* modelled scripts let one value and assign another.
Names == {"x"}
LetVals == {1}
AssignVals == {2}
Absent == 0
NewEnvironment(outer) == [outer |-> outer, store |-> [n \in Names |-> Absent]]
NoScopeOp ==
    [k |-> "", name |-> "", v |-> Absent, at |-> 0, owner |-> 0, res |-> ""]

\* The program runs in one Environment to begin with.
NoScopes ==
    [envs |-> <<NewEnvironment(0)>>, cur |-> 1, ret |-> <<>>,
     op |-> NoScopeOp]

\* Environment.let
Environment_let(envs, e, name, v) == [envs EXCEPT ![e].store[name] = v]

\* Environment.get: the value, or Absent for None.
RECURSIVE Environment_get(_, _, _)
Environment_get(envs, e, name) ==
    IF envs[e].store[name] = Absent /\ envs[e].outer # 0
    THEN Environment_get(envs, envs[e].outer, name)
    ELSE envs[e].store[name]

\* A lookup that stops at the innermost Environment.
Environment_lookup_Innermost(envs, e, name) == e

\* Environment.lookup: the Environment whose store holds the name (the
\* store of the Lookup it returns), or 0 for None.
RECURSIVE Environment_lookup(_, _, _)
Environment_lookup(envs, e, name) ==
    IF envs[e].store[name] = Absent /\ envs[e].outer # 0
    THEN Environment_lookup(envs, envs[e].outer, name)
    ELSE IF envs[e].store[name] = Absent THEN 0
    ELSE e

\* --------------------------------------------------------- brace literals
\* A brace literal as the parser meets it: an optional `Map` or `Set`
\* prefix, then between the braces a list of elements, each `.id = e`
\* ("dot"), `e : e` ("pair") or `e` ("single").
Prefixes == {"", "map", "set"}
ElemKinds == {"dot", "pair", "single"}
RECURSIVE ElemLists(_)
ElemLists(n) ==
    IF n = 0 THEN {<<>>}
    ELSE ElemLists(n - 1)
         \cup {Append(l, e) : l \in {m \in ElemLists(n - 1) : Len(m) = n - 1},
                              e \in ElemKinds}

NoParse ==
    [st |-> "idle", prefix |-> "", src |-> <<>>, rest |-> <<>>,
     mode |-> "unknown", out |-> ""]

\* Parser.parse_expression_map_or_set before the brace: ParseMapOrSet.MAP
\* after `Map`, SET after `Set`, else UNKNOWN.
ModeOfPrefix(prefix) ==
    IF prefix = "map" THEN "map" ELSE IF prefix = "set" THEN "set" ELSE "unknown"

\* One turn of the element loop of Parser.parse_expression_map_or_set: the
\* mode after the element, "error" for a ParseError.
ModeAfterElem(mode, el) ==
    IF el = "dot" THEN (IF mode = "set" THEN "error" ELSE "map")
    ELSE IF el = "pair" THEN (IF mode = "set" THEN "error" ELSE "map")
    ELSE (IF mode = "map" THEN "error" ELSE "set")

\* Parser.parse_expression_map_or_set at the closing brace: UNKNOWN raises
\* ParseError("ambiguous empty map or set"), else the Map or Set literal.
ParseAtBrace(mode) ==
    IF mode = "unknown" THEN "error" ELSE mode

\* ----------------------------------------------------------------- import
\* The files a script imports: two that parse (and may import in turn),
\* one with a syntax error, one that does not exist.
GoodFiles == {"a.mf", "b.mf"}
BadFiles == {"bad.mf"}
MissingFiles == {"gone.mf"}

\* The path, file and directory entries of the module-info map while the
\* file is loaded.
ModuleInfo(file) ==
    [path |-> <<"/lib", file>>, file |-> file, directory |-> "/lib"]
NoImportEvent ==
    [outcome |-> "", target |-> "", before |-> ModuleInfo("")]

\* The main program is main.mf.
NoImports ==
    [module |-> ModuleInfo("main.mf"), loading |-> <<>>, ev |-> NoImportEvent]

\* What eval_file does with the file: FileNotFoundError for a missing one,
\* ParseError (an exception) for one with a syntax error, else the program
\* is evaluated.
eval_file(file) ==
    IF file \in MissingFiles THEN "FileNotFoundError"
    ELSE IF file \in BadFiles THEN "ParseError"
    ELSE "evaluate"

\* ------------------------------------------------------------- last match
\* What rhs.pattern.search(lhs.bytes) gives: None (hit FALSE) or a match
\* with its groups, group 0 first; NoGroup is a group that took no part.
NoGroup == "<none>"
Search(hit, groups) == [hit |-> hit, groups |-> groups]
NoMatch == Search(FALSE, <<>>)
Searches ==
    {NoMatch, Search(TRUE, <<"ab", "b">>), Search(TRUE, <<"ab", NoGroup>>)}

\* The kinds of value the operands of `=~` and `!~` evaluate to.
OperandKinds == {"string", "regexp", "number"}

\* The arguments given to re::group: integers and the non-integer 0.5.
GroupArgs == {Number("int", n) : n \in 0..2} \cup {Number("frac", 0)}

\* re_match_result is None when the interpreter starts.
NoRegexp ==
    [slot |-> NoMatch, hist |-> <<>>, depth |-> 0,
     read |-> [n |-> Number("int", 0), out |-> "", k |-> ""]]

\* An operator that clears the slot when its operands have the wrong types.
SlotAfter_Reset(slot, lhs, rhs, m) ==
    IF lhs = "string" /\ rhs = "regexp" THEN m ELSE NoMatch

\* AstExpressionEqRe.eval / AstExpressionNeRe.eval: re_match_result after
\* the operator, m being the outcome of the search.
SlotAfter(slot, lhs, rhs, m) ==
    IF lhs = "string" /\ rhs = "regexp" THEN m ELSE slot

\* The value of the operator: an Error for wrong operand types, else
\* whether the search matched (=~) or did not (!~).
MatchValue(op, lhs, rhs, m) ==
    IF ~(lhs = "string" /\ rhs = "regexp") THEN "error"
    ELSE IF (op = "=~") = m.hit THEN "true"
    ELSE "false"

\* builtin_re_group on the slot.
builtin_re_group(slot, n) ==
    IF ~is_integer(n) THEN [k |-> "error", out |-> "expected integer"]
    ELSE IF ~slot.hit
    THEN [k |-> "error", out |-> "regular expression did not match"]
    ELSE IF n.n + 1 > Len(slot.groups)
    THEN [k |-> "error", out |-> "out-of-bounds capture group"]
    ELSE IF slot.groups[n.n + 1] = NoGroup THEN [k |-> "null", out |-> ""]
    ELSE [k |-> "string", out |-> slot.groups[n.n + 1]]

\* ---------------------------------------------------- module initialisation
\* The metamaps of the fundamental types, in the order the module builds
\* them.
PrimitiveMetas ==
    <<"function", "boolean", "number", "string", "regexp", "vector", "map",
      "set", "reference">>

\* The names BASE_ENVIRONMENT.let binds, in the order of the calls.
BaseNames ==
    <<"boolean", "number", "string", "regexp", "vector", "map", "set",
      "reference", "iterator", "NaN", "Inf", "exit", "assert", "typeof",
      "typename", "extends", "repr", "input", "inputln", "dump", "dumpln",
      "print", "println", "eprint", "eprintln", "range", "min", "max",
      "import", "baseenv", "fs", "html", "json", "math", "py", "module",
      "random", "re", "ty">>

\* The builtins defined in Mellifera source that the module constructs with
\* evaluated=BuiltinExplicitUninitialized() and initialises at its end, in
\* the order of the initialize_builtin_from_source calls.
DeferredBuiltins ==
    <<"vector::sorted", "vector::iterator", "map::union", "set::union",
      "set::intersection", "set::difference", "range">>

\* The builtins defined in Mellifera source that the module constructs with
\* the default arguments.
ImmediateBuiltins == {"assert", "extends", "min", "max", "math::clamp"}

SourceDefined ==
    {DeferredBuiltins[i] : i \in 1..Len(DeferredBuiltins)}
        \cup ImmediateBuiltins

\* The iterator prototype, the snippet _ITERATOR_SOURCE.
IteratorPrototype == "iterator"

Stmt(kind, name) == [kind |-> kind, name |-> name]

\* The top-level statements the module runs from BASE_ENVIRONMENT =
\* Environment() on, in order.
ModuleInit ==
    [i \in 1..Len(PrimitiveMetas) |-> Stmt("meta", PrimitiveMetas[i])]
        \o <<Stmt("eval", IteratorPrototype), Stmt("meta", IteratorPrototype)>>
        \o [i \in 1..Len(BaseNames) |-> Stmt("let", BaseNames[i])]
        \o [i \in 1..Len(DeferredBuiltins) |->
               Stmt("initialize", DeferredBuiltins[i])]

\* The source-defined builtins a statement constructs, as metamap entries
\* or as the value it binds.
ConstructedBy(stmt) ==
    IF stmt.kind = "meta"
    THEN {b \in SourceDefined :
             \E m \in {"sorted", "iterator", "union", "intersection",
                        "difference"} :
                b = stmt.name \o "::" \o m}
    ELSE IF stmt.kind = "let"
    THEN {b \in SourceDefined :
             b = stmt.name \/ \E m \in {"clamp"} : b = stmt.name \o "::" \o m}
    ELSE {}

\* BuiltinFromSource.__post_init__: the implementation a newly constructed
\* builtin has; a builtin given the explicit sentinel keeps it, any other is
\* initialised at once.
PostInit(b) == IF b \in ImmediateBuiltins THEN "closure" ELSE "sentinel"

\* A snippet is evaluated: what was installed at that moment.
Evaluation(snippet, metas, base) ==
    [snippet |-> snippet, metas |-> metas, base |-> base]

NoBoot ==
    [pc |-> 1, metas |-> {}, base |-> {},
     impl |-> [b \in SourceDefined |-> "absent"],
     evals |-> <<>>, calls |-> <<>>]

\* ----------------------------------------------------------- closure calls
\* A modelled function has no parameter or the one parameter x; a call
\* passes up to two arguments, each the value ArgVal.
ParamCounts == {0, 1}
ArgCounts == 0..2
ArgVal == 3

NoCallOp ==
    [k |-> "", res |-> "", at |-> 0, def |-> 0, v |-> Absent, owner |-> 0]

\* The program runs in one Environment to begin with.  info keeps, for the
\* Environment of a call, the called function's env and the Environment
\* the call was made in.
NoCalls ==
    [envs |-> <<NewEnvironment(0)>>, info |-> <<[def |-> 0, caller |-> 0]>>,
     cur |-> 1, ret |-> <<>>, op |-> NoCallOp]

\* A call whose new Environment is chained to the caller's.
CallOuter_Caller(function_env, caller) == caller

\* call(): env = Environment(function.env).
CallOuter(function_env, caller) == function_env

\* call(): the Environment the body is evaluated in, the parameters bound
\* to the arguments.
CallEnvironment(function_env, caller, nparams) ==
    [outer |-> CallOuter(function_env, caller),
     store |-> [n \in Names |-> IF nparams = 1 THEN ArgVal ELSE Absent]]

\* ------------------------------------------------------ hashing and equality
\* The values compared: a Map or a Set with its keys in insertion order (the
\* Map's value under key k is the same in every Map), or a Function with
\* the identities of its ast and its env.
HashKeys == {"x", "y", "z"}
Asts == {1, 2}
Envs == {1, 2}
NoValue == [kind |-> "none", elems |-> <<>>, ast |-> 0, env |-> 0]
Container(kind, elems) == [kind |-> kind, elems |-> elems, ast |-> 0, env |-> 0]
Function_new(ast, e) == [kind |-> "function", elems |-> <<>>, ast |-> ast, env |-> e]

NoHash ==
    [a |-> NoValue, b |-> NoValue,
     out |-> [done |-> FALSE, eq |-> FALSE, found |-> FALSE]]

\* Map.__str__ / Set.__str__: the elements in the order of the storage,
\* which is the order of insertion.
Str(v) == <<v.kind>> \o v.elems

\* Map.__hash__ / Set.__hash__: hash(str(self)), taken as different for
\* different strings; Function.__hash__: hash(id(ast)) + hash(id(env)).
Hash(v) ==
    IF v.kind = "function" THEN [str |-> <<>>, ast |-> v.ast, env |-> v.env]
    ELSE [str |-> Str(v), ast |-> 0, env |-> 0]

\* Map.__eq__ / Set.__eq__: same type, same length, every key of one in the
\* other (with an equal value); Function.__eq__: same type, same ast.
Eq(v, w) ==
    IF v.kind # w.kind THEN FALSE
    ELSE IF v.kind = "function" THEN v.ast = w.ast
    ELSE /\ Len(v.elems) = Len(w.elems)
         /\ \A i \in 1..Len(v.elems) :
               \E j \in 1..Len(w.elems) : w.elems[j] = v.elems[i]

\* The lookup of key w in a Python dict whose one key is the object v,
\* another object than w: the hashes are compared first, then __eq__.
DictHas(v, w) == Hash(v) = Hash(w) /\ Eq(v, w)

\* -------------------------------------------------------------- type names
\* The value kinds a literal or a constructor produces, and the class whose
\* `new` builds the value.
Kinds ==
    {"boolean", "number", "string", "regexp", "vector", "map", "set",
     "reference", "function"}

ClassOf(kind) ==
    CASE kind = "boolean" -> "Boolean"
      [] kind = "number" -> "Number"
      [] kind = "string" -> "String"
      [] kind = "regexp" -> "Regexp"
      [] kind = "vector" -> "Vector"
      [] kind = "map" -> "Map"
      [] kind = "set" -> "Set"
      [] kind = "reference" -> "Reference"
      [] kind = "function" -> "Function"

\* The static typename() of each Value class.
ClassTypename(class) ==
    CASE class = "Boolean" -> "boolean"
      [] class = "Number" -> "number"
      [] class = "String" -> "string"
      [] class = "Regexp" -> "regexp"
      [] class = "Vector" -> "vector"
      [] class = "Map" -> "map"
      [] class = "Set" -> "set"
      [] class = "Reference" -> "reference"
      [] class = "Function" -> "function"

\* The singleton metamap <Class>.new attaches to the value it builds.
SingletonMeta(class) ==
    CASE class = "Boolean" -> "_BOOLEAN_META"
      [] class = "Number" -> "_NUMBER_META"
      [] class = "String" -> "_STRING_META"
      [] class = "Regexp" -> "_REGEXP_META"
      [] class = "Vector" -> "_VECTOR_META"
      [] class = "Map" -> "_MAP_META"
      [] class = "Set" -> "_SET_META"
      [] class = "Reference" -> "_REFERENCE_META"
      [] class = "Function" -> "_FUNCTION_META"

\* The name each singleton metamap is constructed with.
MetaName(meta) ==
    CASE meta = "_FUNCTION_META" -> ClassTypename("Function")
      [] meta = "_BOOLEAN_META" -> ClassTypename("Boolean")
      [] meta = "_NUMBER_META" -> ClassTypename("Number")
      [] meta = "_STRING_META" -> ClassTypename("String")
      [] meta = "_REGEXP_META" -> ClassTypename("Function")
      [] meta = "_VECTOR_META" -> ClassTypename("Vector")
      [] meta = "_MAP_META" -> ClassTypename("Map")
      [] meta = "_SET_META" -> ClassTypename("Set")
      [] meta = "_REFERENCE_META" -> ClassTypename("Reference")

ValueNew(class) == [class |-> class, meta |-> SingletonMeta(class)]

\* typename(value): the name of the value's metamap if it has one, else the
\* typename() of its class.
typename(value) ==
    IF value.meta # "None" THEN MetaName(value.meta)
    ELSE ClassTypename(value.class)

NoTypes == [kinds |-> <<>>, vals |-> <<>>, names |-> <<>>]

\* ------------------------------------------------------- range iterators
\* A Function stored as an element (its identity does not matter here).
FnV == [k |-> "fn", v |-> 0]

\* let range_iterator = type extends(iterator, {"init": .., "next": ..});
RangeIteratorType(H) ==
    Bind(NewStorage(H, <<FnV, FnV>>, <<"init", "next">>), LAMBDA s :
       NewContainer(s.H, "metamap", s.out, 0))

\* range_iterator::init(bgn, end): an error if end < bgn, else
\* new range_iterator {.cur = bgn, .end = end}.
range_iterator_init(H, type, bgn, end) ==
    IF end < bgn THEN [H |-> H, res |-> "error", out |-> 0]
    ELSE Bind(NewStorage(H, <<NumV(bgn), NumV(end)>>, <<"cur", "end">>),
              LAMBDA s :
                 Bind(NewContainer(s.H, "map", s.out, type), LAMBDA c :
                    [H |-> c.H, res |-> "ok", out |-> c.out]))

\* range_iterator::next(self) with self a Reference: error null at the end
\* of the range, else self.cur = self.cur + 1 (an assignment through the
\* Reference: deref_store[field] = copy(rhs)) and the old cur is returned.
range_iterator_next(H, self) ==
    Bind(H.hs[self].data, LAMBDA it :
       Bind(GetItem(H, it, KeyF("cur")).out, LAMBDA cur :
          IF cur.v >= GetItem(H, it, KeyF("end")).out.v
          THEN [H |-> H, res |-> "eoi", out |-> NullV]
          ELSE Bind(MapSetItem(H, it, "cur", NumV(cur.v + 1)), LAMBDA w :
                  [H |-> w.H, res |-> "ok", out |-> cur])))

\* AstStatementFor.eval: collection = copy(collection).
ForCollection_Same(H, h) == [H |-> H, out |-> h]
ForCollection(H, h) == CopyHandle(H, h)

\* ------------------------------------------------------------- loop scopes
\* The i-th element of the collection of the modelled loop.
Elem(i) == 10 + i

NoLoopOp == [k |-> "", fn |-> 0, v |-> Absent]

\* The program scope before the loop: Environment 1, no loop, no closures.
NoLoopScope ==
    [envs |-> <<NewEnvironment(0)>>, st |-> "idle", len |-> 0, loop_env |-> 0,
     block |-> 0, iter |-> 0, closures |-> <<>>, op |-> NoLoopOp]

\* An iteration that binds the induction variable in a scope of its own.
IterationBind_Fresh(envs, loop_env, name, v) ==
    [envs |-> Append(envs, Environment_let(
                              <<NewEnvironment(envs[loop_env].outer)>>, 1,
                              name, v)[1]),
     at |-> Len(envs) + 1]

\* loop_env.let(name, value) at the start of every iteration: the binding
\* is written in the one loop_env made before the first iteration.
IterationBind(envs, loop_env, name, v) ==
    [envs |-> Environment_let(envs, loop_env, name, v), at |-> loop_env]

\* call(function): the body `return x;` is evaluated in a new Environment
\* whose outer is function.env, and then in the Environment of its block.
CallReading(envs, function_env, name) ==
    Bind(Append(Append(envs, NewEnvironment(function_env)),
                NewEnvironment(Len(envs) + 1)), LAMBDA es :
       Environment_get(es, Len(es), name))

\* ------------------------------------------------------------ statements
CVars == {"v", "w"}     \* variables that hold containers
RVars == {"r", "q"}     \* variables that hold references
TVars == {"T"}          \* variables that hold the value of a `type` expression
Vars == CVars \cup RVars \cup TVars

Roots(e) == {e[x] : x \in {y \in Vars : e[y] # 0}}

HeapHasRoom ==
    /\ Cardinality(FreeHandles(Heap)) >= 2 * MaxSteps + 6
    /\ Cardinality(FreeStores(Heap)) >= MaxSteps + 4


\* The text of a statement after its target: `[field] = rhs`, `.field = rhs`,
\* `::field = rhs` or `.name(arg)`.
Arg(i, k, x) == [i |-> i, k |-> k, x |-> x]
NoStmt == [form |-> "", field |-> IdxF(0), name |-> "", arg |-> Arg(0, "", NullV)]
AssignStmt(form, field, rhs) ==
    [form |-> form, field |-> field, name |-> "", arg |-> Arg(0, "", rhs)]
CallStmt(name, arg) ==
    [form |-> "call", field |-> IdxF(0), name |-> name, arg |-> arg]

\* AstStatementFor.eval keeps alive: the copy of the collection, the
\* objects of the shallow copy it iterates over, the loop variable's value.
NoLoop ==
    [st |-> "none", coll |-> 0, snap |-> <<>>, keys |-> <<>>, pos |-> 0,
     cur |-> NullV, begin |-> <<>>, seen |-> <<>>]
LoopRoots(lp) ==
    (IF lp.coll # 0 THEN {lp.coll} ELSE {})
    \cup {lp.snap[i].v : i \in {j \in 1..Len(lp.snap) : IsObj(lp.snap[j])}}
    \cup (IF IsObj(lp.cur) THEN {lp.cur.v} ELSE {})

\* The end of a statement: temporaries die, the outcome is recorded.
Finish(H, e, op, tgt, stmt, res, shared) ==
    \E C \in {Collect(H, Roots(e) \cup LoopRoots(loop))} :
       /\ UNCHANGED <<loop, othersOfHeap>>
       /\ steps' = IF op \in {"let", "letref"} THEN steps ELSE steps + 1
       /\ handles' = C.hs
       /\ stores' = C.ss
       /\ env' = e
       /\ last' = [op |-> op, tgt |-> tgt, stmt |-> stmt, res |-> res,
                   shared |-> shared]

\* AstExpressionAccessIndex/AccessDot/Deref.eval on an evaluated store: the
\* element object itself (no copy), or an Error.
EvalAccess(H, store, form, field) ==
    IF form = "deref"
    THEN IF H.hs[store].kind = "reference"
         THEN [res |-> "ok", out |-> ObjV(H.hs[store].data)]
         ELSE [res |-> "error", out |-> NullV]
    ELSE IF form = "index"
    THEN IF H.hs[store].kind = "vector" \/ IsMapKind(H.hs[store].kind)
         THEN GetItem(H, store, field)
         ELSE [res |-> "error", out |-> NullV]
    ELSE IF form = "scope"
    THEN IF IsMapKind(H.hs[store].kind) THEN GetItem(H, store, field)
         ELSE [res |-> "error", out |-> NullV]
    ELSE \* "dot": own field, metamap entry, referent field, referent metamap
         Bind(GetItem(H, store, field), LAMBDA own :
            IF own.res = "ok" THEN own
            ELSE Bind(MetaGet(H, store, field.s), LAMBDA meta :
                    IF meta.found THEN [res |-> "ok", out |-> meta.val]
                    ELSE IF H.hs[store].kind # "reference"
                    THEN [res |-> "error", out |-> NullV]
                    ELSE Bind(GetItem(H, H.hs[store].data, field), LAMBDA down :
                            IF down.res = "ok" THEN down
                            ELSE Bind(MetaGet(H, H.hs[store].data, field.s),
                                      LAMBDA dmeta :
                                         IF dmeta.found
                                         THEN [res |-> "ok", out |-> dmeta.val]
                                         ELSE [res |-> "error",
                                               out |-> NullV]))))

\* AstStatementAssignment.eval once the target container (store) and the
\* right-hand side are evaluated: store[field] = copy(rhs) on a Vector or
\* Map, write-through for `ref.field = rhs`, an Error otherwise.
ExecAssign(H, storeV, form, field, rhs) ==
    IF ~IsObj(storeV) THEN [H |-> H, res |-> "error"]
    ELSE Bind(CopyVal(H, rhs), LAMBDA c :
            IF H.hs[storeV.v].kind = "vector" \/ IsMapKind(H.hs[storeV.v].kind)
            THEN SetItem(c.H, storeV.v, field, c.out)
            ELSE IF form = "dot" /\ H.hs[storeV.v].kind = "reference"
            THEN SetItem(c.H, H.hs[storeV.v].data, field, c.out)
            ELSE [H |-> H, res |-> "error"])

\* AstExpressionFunctionCall.eval for `store.name(arg)`.
ExecCall(H, storeV, name, arg) ==
    IF ~IsObj(storeV) THEN [H |-> H, res |-> "error"]
    ELSE Bind(MethodLookup(H, storeV.v, name), LAMBDA lk :
            IF ~lk.fn.found \/ lk.fn.builtin = <<>>
            THEN [H |-> H, res |-> "error"]
            ELSE Bind(NewReference(H, storeV.v), LAMBDA t :
                    Bind(CopyVal(t.H, arg.x), LAMBDA c :
                       CallBuiltin(c.H, lk.fn.builtin,
                                   IF lk.selfIsStore THEN storeV.v ELSE t.out,
                                   [arg EXCEPT !.x = c.out]))))

\* A recorded statement applied to an evaluated target.
ExecStmt(H, storeV, stmt) ==
    IF stmt.form = "call" THEN ExecCall(H, storeV, stmt.name, stmt.arg)
    ELSE ExecAssign(H, storeV, stmt.form, stmt.field, stmt.arg.x)

\* The values a modelled statement writes: the number 2 (the literals hold
\* 1 and 2), or the (flat) container held in a variable.
RhsValues(H, e) ==
    {NumV(2)}
    \cup {ObjV(e[y]) : y \in {z \in CVars : e[z] # 0 /\ DepthH(H, e[z]) = 1}}

\* The statements a script applies to a value of a given kind: the writes
\* that fit the kind and a few that fail (index out of range, string field
\* of a vector, missing key, unknown method).
AssignStmts(kind) ==
    IF kind = "vector"
    THEN {[form |-> "index", field |-> IdxF(0)],
          [form |-> "index", field |-> IdxF(BigIndex)],
          [form |-> "dot", field |-> KeyF("f")]}
    ELSE IF IsMapKind(kind)
    THEN {[form |-> "index", field |-> KeyF("g")],
          [form |-> "dot", field |-> KeyF("f")],
          [form |-> "scope", field |-> KeyF("g")]}
    ELSE IF kind = "set"
    THEN {[form |-> "dot", field |-> KeyF("f")]}
    ELSE {}

CallStmts(kind, rhs) ==
    IF kind = "vector"
    THEN {[name |-> "push", arg |-> Arg(0, "f", x)] : x \in rhs}
         \cup {[name |-> "pop", arg |-> Arg(0, "f", NumV(2))],
               [name |-> "insert", arg |-> Arg(0, "f", NumV(2))],
               [name |-> "remove", arg |-> Arg(0, "f", NumV(2))],
               [name |-> "remove", arg |-> Arg(BigIndex, "f", NumV(2))]}
    ELSE IF IsMapKind(kind)
    THEN {[name |-> "insert", arg |-> Arg(0, "g", x)] : x \in rhs}
         \cup {[name |-> "remove", arg |-> Arg(0, "f", NumV(2))],
               [name |-> "remove", arg |-> Arg(0, "g", NumV(2))],
               [name |-> "push", arg |-> Arg(0, "f", NumV(2))]}
    ELSE IF kind = "set"
    THEN {[name |-> "insert", arg |-> Arg(0, "f", NumV(2))],
          [name |-> "insert", arg |-> Arg(0, "g", NumV(2))],
          [name |-> "remove", arg |-> Arg(0, "f", NumV(2))],
          [name |-> "remove", arg |-> Arg(0, "g", NumV(2))]}
    ELSE {}

\* The accesses `x[0]`, `x[1]`, `x.f`, `x["f"]`, `r.*` that reach an element.
FirstAccess(kind) ==
    IF kind = "vector"
    THEN {[form |-> "index", field |-> IdxF(0)],
          [form |-> "index", field |-> IdxF(1)]}
    ELSE IF IsMapKind(kind)
    THEN {[form |-> "dot", field |-> KeyF("f")],
          [form |-> "index", field |-> KeyF("f")]}
    ELSE IF kind = "reference"
    THEN {[form |-> "deref", field |-> IdxF(0)]}
    ELSE {}

KindOfVar(x) == IF env[x] = 0 THEN "none" ELSE handles[env[x]].kind
KindBehind(x) ==
    IF env[x] = 0 THEN "none" ELSE handles[TargetOf(Heap, env[x])].kind
KindAt(x, a) ==
    IF env[x] = 0 THEN "none"
    ELSE Bind(EvalAccess(Heap, env[x], a.form, a.field), LAMBDA s :
            IF s.res = "ok" /\ IsObj(s.out) THEN handles[s.out.v].kind
            ELSE "scalar")

\* let x = <literal>;
LetLiteral(x, lit) ==
    /\ HeapHasRoom
    /\ env[x] = 0
    /\ \E b \in {BuildLiteral(Heap, lit)} :
          \E c \in {CopyHandle(b.H, b.out)} :
             Finish(c.H, [env EXCEPT ![x] = c.out], "let", x, NoStmt, "ok", FALSE)
    /\ UNCHANGED refOf

\* let x = y;   (AstStatementLet.eval: env.let(name, copy(result)))
LetCopy(x, y) ==
    /\ HeapHasRoom
    /\ env[x] = 0
    /\ env[y] # 0
    /\ \E c \in {CopyHandle(Heap, env[y])} :
          Finish(c.H, [env EXCEPT ![x] = c.out], "let", x, NoStmt, "ok", FALSE)
    /\ refOf' = IF x \in RVars THEN [refOf EXCEPT ![x] = refOf[y]] ELSE refOf

\* let r = x.&;   (AstExpressionMkref.eval, then the copy made by let)
LetRef(r, x) ==
    /\ HeapHasRoom
    /\ env[r] = 0
    /\ env[x] # 0
    /\ \E t \in {NewReference(Heap, env[x])} :
          \E c \in {CopyHandle(t.H, t.out)} :
             Finish(c.H, [env EXCEPT ![r] = c.out], "letref", r, NoStmt, "ok", FALSE)
    /\ refOf' = [refOf EXCEPT ![r] = x]

\* x[i] = rhs;  x.f = rhs;  x::f = rhs;
Assign(x, form, field, rhs) ==
    /\ steps < MaxSteps
    /\ HeapHasRoom
    /\ env[x] # 0
    /\ \E a \in {ExecAssign(Heap, ObjV(env[x]), form, field, rhs)} :
          Finish(a.H, env, "assign", x, AssignStmt(form, field, rhs), a.res,
                 IsShared(Heap, env[x]))
    /\ UNCHANGED refOf

\* x.name(arg);
MethodCall(x, name, arg) ==
    /\ steps < MaxSteps
    /\ HeapHasRoom
    /\ env[x] # 0
    /\ \E a \in {ExecCall(Heap, ObjV(env[x]), name, arg)} :
          Finish(a.H, env, "call", x, CallStmt(name, arg), a.res,
                 IsShared(Heap, env[x]))
    /\ UNCHANGED refOf

\* x[i][j] = rhs;  x.k.f = rhs;  x.*[i] = rhs;  ...
NestedAssign(x, first, form, field, rhs) ==
    /\ steps < MaxSteps
    /\ HeapHasRoom
    /\ env[x] # 0
    /\ \E s \in {EvalAccess(Heap, env[x], first.form, first.field)} :
          \E a \in {IF s.res = "error" THEN [H |-> Heap, res |-> "error"]
                    ELSE ExecAssign(Heap, s.out, form, field, rhs)} :
             Finish(a.H, env, "nested_assign", x, AssignStmt(form, field, rhs),
                    a.res, IsShared(Heap, env[x]))
    /\ UNCHANGED refOf

\* x[i].name(arg);  x.k.name(arg);  x.*.name(arg);
NestedCall(x, first, name, arg) ==
    /\ steps < MaxSteps
    /\ HeapHasRoom
    /\ env[x] # 0
    /\ \E s \in {EvalAccess(Heap, env[x], first.form, first.field)} :
          \E a \in {IF s.res = "error" THEN [H |-> Heap, res |-> "error"]
                    ELSE ExecCall(Heap, s.out, name, arg)} :
             Finish(a.H, env, "nested_call", x, CallStmt(name, arg), a.res,
                    IsShared(Heap, env[x]))
    /\ UNCHANGED refOf

Init ==
    /\ handles = [h \in HandleIds |-> FreeHandle]
    /\ stores = [s \in StoreIds |-> FreeStore]
    /\ env = [x \in Vars |-> 0]
    /\ refOf = [r \in RVars |-> "none"]
    /\ steps = 0
    /\ last = [op |-> "init", tgt |-> "", stmt |-> NoStmt, res |-> "ok",
               shared |-> FALSE]
    /\ loop = NoLoop
    /\ lg = NoLogic
    /\ tr = NoTrace
    /\ cf = NoFlow
    /\ sc = NoScopes
    /\ ps = NoParse
    /\ im = NoImports
    /\ rx = NoRegexp
    /\ bt = NoBoot
    /\ cl = NoCalls
    /\ hv = NoHash
    /\ tn = NoTypes
    /\ runs = <<>>
    /\ fl = NoLoopScope

\* Scripts over two container variables: let v = <literal>; let w = v; and
\* writes applied directly to v or w, or to one of their elements.
DirectWrite(x) ==
    \/ \E st \in AssignStmts(KindOfVar(x)), rhs \in RhsValues(Heap, env) :
          Assign(x, st.form, st.field, rhs)
    \/ \E st \in CallStmts(KindOfVar(x), RhsValues(Heap, env)) :
          MethodCall(x, st.name, st.arg)

NestedWrite(x) ==
    \/ \E a \in FirstAccess(KindOfVar(x)) :
          \E st \in AssignStmts(KindAt(x, a)) :
             NestedAssign(x, a, st.form, st.field, NumV(2))
    \/ \E a \in FirstAccess(KindOfVar(x)) :
          \E st \in CallStmts(KindAt(x, a), {NumV(2)}) :
             NestedCall(x, a, st.name, st.arg)

NextCow ==
    \/ \E lit \in Literals : LetLiteral("v", lit)
    \/ LetCopy("w", "v")
    \/ \E x \in CVars : DirectWrite(x)
    \/ \E x \in CVars : NestedWrite(x)

SpecCow == Init /\ [][NextCow]_vars

\* C1: after `let w = v`, a write applied directly to one of the two
\* variables (element or field assignment, push, pop, insert, remove) leaves
\* the value read through the other variable unchanged.
C1_DirectWriteIsolated ==
    [][\A x \in CVars, y \in CVars :
          (/\ x # y
           /\ env[y] # 0
           /\ last'.op \in {"assign", "call"}
           /\ last'.tgt = x)
          => ObsH(Heap', env'[y]) = ObsH(Heap, env[y])]_vars

\* A direct write succeeded on storage that was shared at the time, and the
\* two variables now read differently.
C1_Witness ==
    /\ last.op \in {"assign", "call"}
    /\ last.res = "ok"
    /\ last.shared
    /\ env["v"] # 0
    /\ env["w"] # 0
    /\ ObsH(Heap, env["v"]) # ObsH(Heap, env["w"])

\* C3: after `let w = v`, a write through a nested access path of one
\* variable (`w[i][j] = x`, `w[i].push(x)`, `w.k.f = x`) leaves the value
\* read through the other variable unchanged.
C3_NestedWriteIsolated ==
    [][\A x \in CVars, y \in CVars :
          (/\ x # y
           /\ env[y] # 0
           /\ last'.op \in {"nested_assign", "nested_call"}
           /\ last'.tgt = x)
          => ObsH(Heap', env'[y]) = ObsH(Heap, env[y])]_vars

\* Scripts with references: let v = <literal>; let w = v; let r = v.&;
\* let q = r; and writes through r or q.
RefWrite(r) ==
    \/ \E st \in AssignStmts(KindBehind(r)) :
          Assign(r, st.form, st.field, NumV(2))
    \/ \E st \in CallStmts(KindBehind(r), RhsValues(Heap, env)) :
          MethodCall(r, st.name, st.arg)
    \/ \E st \in AssignStmts(KindBehind(r)) :
          NestedAssign(r, [form |-> "deref", field |-> IdxF(0)],
                       st.form, st.field, NumV(2))
    \/ \E st \in CallStmts(KindBehind(r), {NumV(2)}) :
          NestedCall(r, [form |-> "deref", field |-> IdxF(0)], st.name, st.arg)

NextRef ==
    \/ \E lit \in Literals : LetLiteral("v", lit)
    \/ LetCopy("w", "v")
    \/ \E x \in CVars : LetRef("r", x)
    \/ LetCopy("q", "r")
    \/ \E r \in RVars : RefWrite(r)

SpecRef == Init /\ [][NextRef]_vars

\* --------------------------------------------------------------- for loop
\* What one iteration shows the body: the key (maps and sets) and the value
\* bound to the loop variable.
Visit(H, keys, i, x) ==
    [key |-> IF keys = <<>> THEN "" ELSE keys[i], val |-> ObsV(H, x)]

\* for x in v { ... the head: collection = copy(collection), then the
\* shallow copy list(collection.data) / dict(collection.data).
ForBegin(x) ==
    /\ loop.st = "none"
    /\ HeapHasRoom
    /\ env[x] # 0
    /\ \E c \in {CopyHandle(Heap, env[x])} :
          \E d \in {c.H.ss[c.H.hs[c.out].data]} :
             /\ handles' = c.H.hs
             /\ stores' = c.H.ss
             /\ loop' = [st |-> "active", coll |-> c.out, snap |-> d.elems,
                         keys |-> d.keys, pos |-> 0, cur |-> NullV,
                         begin |-> [i \in 1..Len(d.elems) |->
                                      Visit(c.H, d.keys, i, d.elems[i])],
                         seen |-> <<>>]
    /\ last' = [op |-> "for", tgt |-> x, stmt |-> NoStmt, res |-> "ok",
                shared |-> IsShared(Heap, env[x])]
    /\ UNCHANGED <<env, refOf, steps, othersOfHeap>>

\* The start of an iteration: loop_env.let(name, copy(x)) for the next
\* object of the shallow copy; the previous value of the loop variable dies.
ForStep ==
    /\ loop.st = "active"
    /\ loop.pos < Len(loop.snap)
    /\ HeapHasRoom
    /\ \E c \in {CopyVal(Heap, loop.snap[loop.pos + 1])} :
          \E lp \in {[loop EXCEPT !.pos = @ + 1, !.cur = c.out,
                                  !.seen = Append(@, Visit(c.H, loop.keys,
                                                          loop.pos + 1, c.out))]} :
             \E C \in {Collect(c.H, Roots(env) \cup LoopRoots(lp))} :
                /\ handles' = C.hs
                /\ stores' = C.ss
                /\ loop' = lp
    /\ last' = [op |-> "for_step", tgt |-> "", stmt |-> NoStmt, res |-> "ok",
                shared |-> FALSE]
    /\ UNCHANGED <<env, refOf, steps, othersOfHeap>>

\* The end of the loop: the collection copy, the shallow copy and the loop
\* variable die.
ForEnd ==
    /\ loop.st = "active"
    /\ loop.pos = Len(loop.snap)
    /\ \E C \in {Collect(Heap, Roots(env))} :
          /\ handles' = C.hs
          /\ stores' = C.ss
    /\ loop' = [NoLoop EXCEPT !.st = "done", !.begin = loop.begin,
                              !.seen = loop.seen]
    /\ last' = [op |-> "for_end", tgt |-> "", stmt |-> NoStmt, res |-> "ok",
                shared |-> FALSE]
    /\ UNCHANGED <<env, refOf, steps, othersOfHeap>>

\* Scripts with a loop: let v = <literal>; let w = v; for x in v { writes to
\* v or to one of its elements }.
InBody == loop.st = "active" /\ loop.pos > 0

NextFor ==
    \/ \E lit \in Literals : LetLiteral("v", lit)
    \/ loop.st = "none" /\ LetCopy("w", "v")
    \/ ForBegin("v")
    \/ ForStep
    \/ ForEnd
    \/ InBody /\ DirectWrite("v")
    \/ InBody /\ NestedWrite("v")

SpecFor == Init /\ [][NextFor]_vars

\* C4: a for loop over a Vector, Map or Set visits exactly the elements (for
\* maps the key/value pairs) present when the loop began, in the order of
\* that time, whatever the body does to the iterated variable.
C4_VisitsSnapshot ==
    /\ loop.seen = SubSeq(loop.begin, 1, Len(loop.seen))
    /\ loop.st = "done" => loop.seen = loop.begin

\* ---------------------------------------------------------------- metamaps
MapLiterals == {lit \in Literals : lit.kind = "map"}

\* let t = type <map literal>;   AstExpressionType.eval wraps the storage of
\* the evaluated map in a MetaMap; the map itself is a temporary.
LetTypeLiteral(t, lit) ==
    /\ HeapHasRoom
    /\ env[t] = 0
    /\ \E b \in {BuildLiteral(Heap, lit)} :
          \E c \in {NewContainer(b.H, "metamap", b.H.hs[b.out].data, 0)} :
             Finish(c.H, [env EXCEPT ![t] = c.out], "let", t, NoStmt, "ok",
                    FALSE)
    /\ UNCHANGED refOf

\* let t = type y;   the MetaMap shares the storage of the map bound to y.
LetType(t, y) ==
    /\ HeapHasRoom
    /\ env[t] = 0
    /\ env[y] # 0
    /\ IsMapKind(handles[env[y]].kind)
    /\ \E c \in {NewContainer(Heap, "metamap", handles[env[y]].data, 0)} :
          Finish(c.H, [env EXCEPT ![t] = c.out], "let", t, NoStmt, "ok", FALSE)
    /\ UNCHANGED refOf

\* ty::name(x.&, arg);  or, for a reference variable,  ty::name(x, arg);
\* the callee is the builtin itself, the first argument a Reference.
ScopedCall(ty, name, x, arg) ==
    /\ steps < MaxSteps
    /\ HeapHasRoom
    /\ env[x] # 0
    /\ \E t \in {IF handles[env[x]].kind = "reference"
                  THEN CopyHandle(Heap, env[x])
                  ELSE NewReference(Heap, env[x])} :
          \E c \in {CopyVal(t.H, arg.x)} :
             \E a \in {CallBuiltin(c.H, <<ty, name>>, t.out,
                                   [arg EXCEPT !.x = c.out])} :
                Finish(a.H, env, "builtin", x,
                       [form |-> ty, field |-> IdxF(0), name |-> name,
                        arg |-> arg],
                       a.res, IsShared(Heap, env[x]))
    /\ UNCHANGED refOf

\* Scripts with a type value: let v = <map literal>; let T = type v; (or of
\* a literal); let r = T.&; assignments to T and through r; map::insert and
\* map::remove on T.&, r and v.&; writes to v.
NextMeta ==
    \/ \E lit \in MapLiterals : LetLiteral("v", lit)
    \/ \E lit \in MapLiterals : LetTypeLiteral("T", lit)
    \/ LetType("T", "v")
    \/ LetRef("r", "T")
    \/ \E x \in {"T", "r"} :
          \E st \in AssignStmts("metamap"), rhs \in RhsValues(Heap, env) :
             Assign(x, st.form, st.field, rhs)
    \/ \E x \in {"T", "r", "v"} :
          \E st \in CallStmts("map", {NumV(2)}) :
             ScopedCall("map", st.name, x, st.arg)
    \/ DirectWrite("v")

SpecMeta == Init /\ [][NextMeta]_vars

\* C5: an assignment to a field or an index of the value of a type
\* expression (`T[k] = x`, `T.k = x`, `T::k = x`, also `r.k = x` for
\* r = T.&) is an Error and leaves T unchanged.
C5_MetaMapAssignRejected ==
    [][(/\ last'.op = "assign"
        /\ last'.tgt \in {"T", "r"})
       => /\ last'.res = "error"
          /\ ObsH(Heap', env'["T"]) = ObsH(Heap, env["T"])]_vars

\* An assignment to T itself was rejected while T shared its storage with
\* the map it was made from.
C5_Witness ==
    /\ last.op = "assign"
    /\ last.tgt = "T"
    /\ last.res = "error"
    /\ env["v"] # 0
    /\ handles[env["T"]].data = handles[env["v"]].data

\* C6: map::insert(T.&, k, v) and map::remove(T.&, k) on the value of a type
\* expression yield an Error and leave T unchanged.
C6_MetaMapBuiltinRejected ==
    [][(/\ last'.op = "builtin"
        /\ last'.tgt \in {"T", "r"}
        /\ last'.stmt.name \in {"insert", "remove"})
       => /\ last'.res = "error"
          /\ ObsH(Heap', env'["T"]) = ObsH(Heap, env["T"])]_vars

\* ------------------------------------------------------------ and / or
\* A script begins to evaluate `l op r`; each operand is an expression with
\* an effect (a call that counts itself) and the given outcome.
LogicStart(op, l, r) ==
    /\ lg.pc \in {"idle", "done"}
    /\ lg.n < MaxExprs
    /\ lg' = [pc |-> "lhs", op |-> op, l |-> l, r |-> r, lv |-> "none",
              rv |-> "none", res |-> "none", effects |-> lg.effects,
              effects0 |-> lg.effects, n |-> lg.n + 1]
    /\ UNCHANGED othersOfLogic

\* lhs = self.lhs.eval(env) and the tests that follow it.
EvalLhs ==
    /\ lg.pc = "lhs"
    /\ \E res \in {IF lg.op = "and" THEN AndLhs(lg.l) ELSE OrLhs(lg.l)} :
          lg' = [lg EXCEPT !.lv = lg.l,
                           !.effects = @ + 1,
                           !.res = IF res = "more" THEN "none" ELSE res,
                           !.pc = IF res = "more" THEN "rhs" ELSE "done"]
    /\ UNCHANGED othersOfLogic

\* rhs = self.rhs.eval(env) and the tests that follow it.
EvalRhs ==
    /\ lg.pc = "rhs"
    /\ lg' = [lg EXCEPT !.rv = lg.r,
                        !.effects = @ + 1,
                        !.res = IF lg.op = "and" THEN AndRhs(lg.lv, lg.r)
                                ELSE OrRhs(lg.lv, lg.r),
                        !.pc = "done"]
    /\ UNCHANGED othersOfLogic

NextLogic ==
    \/ \E op \in {"and", "or"}, l \in Operands, r \in Operands :
          LogicStart(op, l, r)
    \/ EvalLhs
    \/ EvalRhs

SpecLogic == Init /\ [][NextLogic]_vars

\* C7: when the left operand of `and` is Boolean false, or the left operand
\* of `or` is Boolean true, the right operand is never evaluated (its effect
\* does not happen) and the result is that Boolean.
C7_ShortCircuit ==
    (/\ lg.pc = "done"
     /\ \/ lg.op = "and" /\ lg.lv = "false"
        \/ lg.op = "or" /\ lg.lv = "true")
    => /\ lg.rv = "none"
       /\ lg.effects = lg.effects0 + 1
       /\ lg.res = lg.lv

\* `true or <an expression that would have been an Error>` ended as true.
C7_Witness ==
    /\ lg.pc = "done"
    /\ lg.op = "or"
    /\ lg.lv = "true"
    /\ lg.r = "error"
    /\ lg.res = "true"

\* C8: `a and b` and `a or b` yield a Boolean only when every operand that
\* was evaluated is a Boolean; a non-Boolean left operand gives an Error
\* whatever the right operand is, and so does an evaluated non-Boolean
\* right operand.
C8_OperandTyping ==
    lg.pc = "done" =>
       /\ IsBool(lg.res) => IsBool(lg.lv) /\ (lg.rv = "none" \/ IsBool(lg.rv))
       /\ lg.lv \in {"num", "str"} => lg.res = "error"
       /\ lg.rv \in {"num", "str"} => lg.res = "error"

\* ------------------------------------------------------------ call stack
TopFrame == IF tr.stack = <<>> THEN NoFrame ELSE tr.stack[Len(tr.stack)]

\* The code that runs in the top frame is Mellifera code: the program, the
\* body of a Function or the source of a BuiltinFromSource.
InScript == TopFrame.kind \in {"none", "closure", "source"}

Push(f) ==
    /\ tr.mode = "run"
    /\ Len(tr.stack) < MaxDepth
    /\ tr' = [tr EXCEPT !.stack = Append(@, f), !.popped = NoFrame,
                        !.dropped = 0]
    /\ UNCHANGED othersOfTrace

\* AstExpressionFunctionCall.eval reaching call(self.location, function, ..)
\* with a Function.
CallClosure(fn, site) ==
    /\ InScript
    /\ Push(Frame(fn, "closure", site))

\* The same with a BuiltinFromSource.
CallSource(fn, site) ==
    /\ InScript
    /\ Push(Frame(fn, "source", site))

\* The same with a Builtin written in host code.
CallHost(fn, site) ==
    /\ InScript
    /\ Push(Frame(fn, "host", site))

\* A host builtin calling a metafunction: call(None, metafunction, ..).
HostCallsClosure(fn) ==
    /\ TopFrame.kind = "host"
    /\ Push(Frame(fn, "closure", 0))

\* The Error has left every frame: AstProgram.eval returns it.
ModeAfter(stack) == IF stack = <<>> THEN "top" ELSE "unwind"

\* AstStatementError.eval: a new Error, its trace empty.
Raise ==
    /\ tr.mode = "run"
    /\ InScript
    /\ tr' = [tr EXCEPT !.mode = ModeAfter(tr.stack), !.err = <<>>,
                        !.chain = tr.stack, !.raisedBy = "error",
                        !.popped = NoFrame, !.dropped = 0]
    /\ UNCHANGED othersOfTrace

\* Builtin.call turning the exception of a host builtin into Error(None, ..).
HostFail ==
    /\ tr.mode = "run"
    /\ TopFrame.kind = "host"
    /\ tr' = [tr EXCEPT !.mode = "unwind", !.err = <<>>,
                        !.chain = tr.stack, !.raisedBy = "host",
                        !.popped = NoFrame, !.dropped = 0]
    /\ UNCHANGED othersOfTrace

\* The callee returns a value.
ReturnValue ==
    /\ tr.mode = "run"
    /\ tr.stack # <<>>
    /\ tr' = [tr EXCEPT !.stack = SubSeq(@, 1, Len(@) - 1),
                        !.popped = NoFrame, !.dropped = 0]
    /\ UNCHANGED othersOfTrace

\* The Error leaves the top frame: call() returns it to the caller.
Unwind ==
    /\ tr.mode = "unwind"
    /\ tr.stack # <<>>
    /\ \E f \in {TopFrame}, rest \in {SubSeq(tr.stack, 1, Len(tr.stack) - 1)} :
          tr' = [tr EXCEPT !.stack = rest,
                           !.mode = ModeAfter(rest),
                           !.err = LeaveFrame(tr.err, f),
                           !.popped = f,
                           !.dropped = IF f.kind = "source"
                                       THEN Len(tr.err) + 1 ELSE 0]
    /\ UNCHANGED othersOfTrace

\* AstStatementTry.eval: the failing call stands in a try block of the
\* frame the Error has come back to; the catch block goes on.
Catch ==
    /\ tr.mode = "unwind"
    /\ tr.popped # NoFrame
    /\ TopFrame.kind \in {"closure", "source"}
    /\ tr' = [tr EXCEPT !.mode = "run", !.err = <<>>, !.chain = <<>>,
                        !.raisedBy = "", !.popped = NoFrame, !.dropped = 0]
    /\ UNCHANGED othersOfTrace

NextTrace ==
    \/ \E fn \in Closures, site \in Sites : CallClosure(fn, site)
    \/ \E fn \in SourceBuiltins, site \in Sites : CallSource(fn, site)
    \/ \E fn \in HostBuiltins, site \in Sites : CallHost(fn, site)
    \/ \E fn \in Closures : HostCallsClosure(fn)
    \/ Raise
    \/ HostFail
    \/ ReturnValue
    \/ Unwind
    \/ Catch

SpecTrace == Init /\ [][NextTrace]_vars

\* The calls of the chain are all calls of Functions.
OnlyClosures(chain) == \A i \in 1..Len(chain) : chain[i].kind = "closure"

\* The position in the chain of the first call of a source-defined builtin
\* (the length of the chain when there is none).
OutermostSource(chain) ==
    Min({Len(chain)}
        \cup {i \in 1..Len(chain) : chain[i].kind = "source"})

\* An error statement was executed and its Error has reached the top.
ErrorAtTop == tr.mode = "top" /\ tr.raisedBy = "error"

\* C9 as stated: an error statement executed under a chain of N nested
\* calls with no try/catch between gives the Error that reaches the top a
\* trace of at least N elements, innermost callee first, each the callee
\* with the location of its call site.
C9_TraceAtLeastN ==
    ErrorAtTop =>
       \E N \in {Len(tr.chain)} :
          /\ Len(tr.err) >= N
          /\ \A i \in 1..N :
                tr.err[i] = TraceElement(tr.chain[N + 1 - i].site,
                                         tr.chain[N + 1 - i].fn)

\* C9, amended: the trace of the Error that reaches the top has one element
\* for each call of the chain from the outermost call down to the first
\* call of a source-defined builtin (down to the error statement's own
\* function when the chain has none: N elements), innermost first, each
\* the callee with the location its caller gave (none for a call made by a
\* host builtin).
C9_TraceOfChain ==
    ErrorAtTop =>
       \E k \in {OutermostSource(tr.chain)} :
          /\ Len(tr.err) = k
          /\ OnlyClosures(tr.chain) => k = Len(tr.chain)
          /\ \A i \in 1..k :
                tr.err[i] = TraceElement(tr.chain[k + 1 - i].site,
                                         tr.chain[k + 1 - i].fn)

\* An error statement under three nested calls of Functions, two different
\* callees among them, has reached the top.
C9_Witness ==
    /\ ErrorAtTop
    /\ Len(tr.chain) = 3
    /\ OnlyClosures(tr.chain)
    /\ tr.chain[1].fn # tr.chain[3].fn
    /\ tr.chain[1].site # tr.chain[2].site
    /\ Len(tr.err) = 3

\* C10: when a failing call of a source-defined builtin hands its Error to
\* the caller, the trace holds exactly one element, the builtin at the
\* caller's call site; the elements added inside the builtin's source are
\* gone.
C10_SourceBuiltinOneElement ==
    tr.popped.kind = "source" =>
       tr.err = <<TraceElement(tr.popped.site, tr.popped.fn)>>

\* A source-defined builtin failed through calls made inside its source:
\* three elements were removed when it returned.
C10_Witness ==
    /\ tr.popped.kind = "source"
    /\ tr.dropped >= 3
    /\ Len(tr.err) = 1

\* ------------------------------------------------- statements and signals
FlowTop == IF cf.stack = <<>> THEN NoFlowFrame ELSE cf.stack[Len(cf.stack)]
FlowRest == SubSeq(cf.stack, 1, Len(cf.stack) - 1)
Running == cf.st = "run" /\ cf.sig = NoSignal
Yielding == cf.st = "run" /\ cf.sig # NoSignal /\ cf.stack # <<>>
Event(f, sig) == [frame |-> f, in |-> sig, rest |-> FlowRest]

\* Execution enters a construct: call() evaluates a function body, a loop
\* its block for the first element, a try statement its try block, an if
\* the block of a true condition.
Enter(f) ==
    /\ Running
    /\ Len(cf.stack) < MaxNest
    /\ cf' = [cf EXCEPT !.stack = Append(@, f), !.ev = NoEvent]
    /\ UNCHANGED othersOfFlow

EnterCall == Enter(FlowFrame("function", 0, FALSE, ""))
EnterLoop == Enter(FlowFrame("loop", 0, FALSE, ""))
EnterTry(id) == Enter(FlowFrame("try", 0, id, ""))
EnterIf == Enter(FlowFrame("if", 0, FALSE, ""))

\* AstStatementReturn / Break / Continue / Error .eval.
Statement(k, v) ==
    /\ Running
    /\ cf' = [cf EXCEPT !.sig = Signal(k, v, FnDepth(cf.stack)),
                        !.ev = NoEvent]
    /\ UNCHANGED othersOfFlow

\* The block of the construct has no statement left: AstBlock.eval returns
\* None (a function body: call() returns Null).
BlockDone ==
    /\ Running
    /\ FlowTop.kind \in {"function", "try", "catch", "if"}
    /\ cf' = [cf EXCEPT !.stack = FlowRest, !.ev = Event(FlowTop, NoSignal)]
    /\ UNCHANGED othersOfFlow

\* The block of a loop has no statement left and the loop goes on.
LoopNext ==
    /\ Running
    /\ FlowTop.kind = "loop"
    /\ FlowTop.it < MaxIter
    /\ cf' = [cf EXCEPT !.stack[Len(cf.stack)].it = @ + 1, !.ev = NoEvent]
    /\ UNCHANGED othersOfFlow

\* The block of a loop has no statement left and the loop is over.
LoopDone ==
    /\ Running
    /\ FlowTop.kind = "loop"
    /\ cf' = [cf EXCEPT !.stack = FlowRest, !.ev = Event(FlowTop, NoSignal)]
    /\ UNCHANGED othersOfFlow

\* AstBlock.eval / AstStatementIfElifElse.eval return the result.
YieldIf ==
    /\ Yielding
    /\ FlowTop.kind = "if"
    /\ cf' = [cf EXCEPT !.stack = FlowRest, !.ev = Event(FlowTop, cf.sig)]
    /\ UNCHANGED othersOfFlow

\* AstStatementTry.eval after the try block.
YieldTry ==
    /\ Yielding
    /\ FlowTop.kind = "try"
    /\ \E r \in {AstStatementTry_eval(FlowTop, cf.sig)} :
          cf' = [cf EXCEPT
                   !.stack = IF r.catch
                             THEN Append(FlowRest,
                                     FlowFrame("catch", 0, FlowTop.id, r.bound))
                             ELSE FlowRest,
                   !.sig = r.sig,
                   !.ev = Event(FlowTop, cf.sig)]
    /\ UNCHANGED othersOfFlow

\* AstStatementTry.eval: return self.catch_block.eval(env).
YieldCatch ==
    /\ Yielding
    /\ FlowTop.kind = "catch"
    /\ cf' = [cf EXCEPT !.stack = FlowRest, !.ev = Event(FlowTop, cf.sig)]
    /\ UNCHANGED othersOfFlow

\* The loop of AstStatementFor.eval / AstStatementWhile.eval after the
\* block; a loop that advances past its last element is over.
YieldLoop ==
    /\ Yielding
    /\ FlowTop.kind = "loop"
    /\ \E r \in {LoopOnResult(cf.sig)} :
          cf' = [cf EXCEPT
                   !.stack = IF r.do = "advance" /\ FlowTop.it < MaxIter
                             THEN [cf.stack EXCEPT ![Len(cf.stack)].it = @ + 1]
                             ELSE FlowRest,
                   !.sig = r.sig,
                   !.ev = Event(FlowTop, cf.sig)]
    /\ UNCHANGED othersOfFlow

\* call() after function.ast.body.eval(env).
YieldCall ==
    /\ Yielding
    /\ FlowTop.kind = "function"
    /\ cf' = [cf EXCEPT !.stack = FlowRest,
                        !.sig = CallOnResult(cf.sig).sig,
                        !.ev = Event(FlowTop, cf.sig)]
    /\ UNCHANGED othersOfFlow

\* AstProgram.eval: a statement of the program yields, or none is left.
ProgramEnd ==
    /\ cf.st = "run"
    /\ cf.stack = <<>>
    /\ cf' = [cf EXCEPT !.st = "ended",
                        !.sig = NoSignal,
                        !.result = ProgramOnResult(cf.sig),
                        !.ev = Event(FlowFrame("program", 0, FALSE, ""),
                                     cf.sig)]
    /\ UNCHANGED othersOfFlow

NextFlow ==
    \/ EnterCall
    \/ EnterLoop
    \/ \E id \in BOOLEAN : EnterTry(id)
    \/ EnterIf
    \/ \E v \in Payloads : Statement("return", v)
    \/ Statement("break", "")
    \/ Statement("continue", "")
    \/ \E v \in Payloads : Statement("error", v)
    \/ BlockDone
    \/ LoopNext
    \/ LoopDone
    \/ YieldIf
    \/ YieldTry
    \/ YieldCatch
    \/ YieldLoop
    \/ YieldCall
    \/ ProgramEnd

SpecFlow == Init /\ [][NextFlow]_vars

\* C11: a try statement whose try block yields Return, Break or Continue
\* yields that same signal and its catch block is not executed; when the
\* try block yields an Error the catch block is executed with the
\* identifier (if any) bound to the Error's payload, and what the catch
\* block yields (nothing, Return, Break, Continue or an Error) is what the
\* try statement yields.
C11_TryCatchesOnlyError ==
    /\ (cf.ev.frame.kind = "try"
        /\ cf.ev.in.k \in {"return", "break", "continue"})
       => cf.sig = cf.ev.in /\ cf.stack = cf.ev.rest
    /\ (cf.ev.frame.kind = "try" /\ cf.ev.in.k = "error")
       => /\ cf.sig = NoSignal
          /\ cf.stack =
                Append(cf.ev.rest,
                       FlowFrame("catch", 0, cf.ev.frame.id,
                                 IF cf.ev.frame.id THEN cf.ev.in.v
                                 ELSE "unbound"))
    /\ cf.ev.frame.kind = "catch"
       => cf.sig = cf.ev.in /\ cf.stack = cf.ev.rest

\* A catch block whose identifier was bound to a Null payload has yielded
\* Break, and the try statement yields it to the loop around it.
C11_Witness ==
    /\ cf.ev.frame.kind = "catch"
    /\ cf.ev.frame.bound = "null"
    /\ cf.ev.in.k = "break"
    /\ FlowTop.kind = "loop"
    /\ cf.sig.k = "break"

\* C12: when a function body or the program yields Break or Continue, the
\* call or the program yields an Error, the constructs of the caller (its
\* loops and their iteration counts) are as they were, and a loop is only
\* ever exited or advanced by a Break or Continue of its own function body.
C12_BreakStaysInBody ==
    /\ (cf.ev.frame.kind = "function" /\ cf.ev.in.k \in {"break", "continue"})
       => /\ cf.sig.k = "error"
          /\ cf.sig.v \in {BreakOutside, ContinueOutside}
          /\ cf.stack = cf.ev.rest
    /\ (cf.ev.frame.kind = "program" /\ cf.ev.in.k \in {"break", "continue"})
       => cf.result.k = "error"
    /\ (cf.ev.frame.kind = "loop" /\ cf.ev.in.k \in {"break", "continue"})
       => cf.ev.in.org = FnDepth(cf.ev.rest)

\* A function called in a loop yielded Continue: the loop around the call,
\* still in its second iteration, is handed the Error.
C12_Witness ==
    /\ cf.ev.frame.kind = "function"
    /\ cf.ev.in.k = "continue"
    /\ FlowTop.kind = "loop"
    /\ FlowTop.it = 1
    /\ cf.sig = Signal("error", ContinueOutside, 1)

\* ------------------------------------------------------------- for loops
NonInteger == "attempted iteration over non-integer number"
NotIterable == "attempted iteration over type"
KeyValueOverIterator == "attempted key-value iteration over iterator"
ForError(msg) == Signal("error", msg, FnDepth(cf.stack))

\* `for K in c` where the metamap of c has a callable next: the loop calls
\* next with a Reference to (its copy of) c.
ForOverIterator(kind) ==
    /\ Running
    /\ ForBranch(TRUE, kind) = "iterator"
    /\ Len(cf.stack) + 2 <= MaxNest
    /\ cf' = [cf EXCEPT
                !.stack = cf.stack \o <<ForIterFrame(kind, 0, "", 1), NextFrame>>,
                !.ev = NoEvent]
    /\ UNCHANGED othersOfFlow

\* `for K, V in c` with such a c.
ForKeyValueOverIterator(kind) ==
    /\ Running
    /\ ForBranch(TRUE, kind) = "iterator"
    /\ cf' = [cf EXCEPT !.sig = ForError(KeyValueOverIterator),
                        !.ev = NoEvent]
    /\ UNCHANGED othersOfFlow

\* `for K in c` where c has no next and is neither a Number nor a container.
ForOverOther(kind) ==
    /\ Running
    /\ ForBranch(FALSE, kind) = "error"
    /\ cf' = [cf EXCEPT !.sig = ForError(NotIterable), !.ev = NoEvent]
    /\ UNCHANGED othersOfFlow

\* call(next) has returned to the for loop.
NextReturns ==
    /\ cf.st = "run"
    /\ FlowTop.kind = "next"
    /\ \E lp \in {cf.stack[Len(cf.stack) - 1]},
          below \in {SubSeq(cf.stack, 1, Len(cf.stack) - 2)},
          d \in {ForOnIterated(CallOnResult(cf.sig))} :
          cf' = [cf EXCEPT
                   !.stack = IF d.do = "body"
                             THEN Append(below,
                                     ForIterFrame(lp.coll, lp.it + 1, d.elem,
                                                  lp.calls))
                             ELSE below,
                   !.sig = d.sig,
                   !.ev = Event(FlowTop, cf.sig)]
    /\ UNCHANGED othersOfFlow

\* The block of the loop over an iterator has no statement left: the loop
\* calls next again.
ForIterAgain ==
    /\ Running
    /\ FlowTop.kind = "forit"
    /\ FlowTop.calls <= MaxIter
    /\ cf' = [cf EXCEPT
                !.stack = Append([cf.stack EXCEPT ![Len(cf.stack)].calls = @ + 1],
                                 NextFrame),
                !.ev = NoEvent]
    /\ UNCHANGED othersOfFlow

\* The block of the loop over an iterator yields.
YieldForIter ==
    /\ Yielding
    /\ FlowTop.kind = "forit"
    /\ \E r \in {LoopOnResult(cf.sig)} :
          /\ r.do = "advance" => FlowTop.calls <= MaxIter
          /\ cf' = [cf EXCEPT
                      !.stack =
                         IF r.do = "advance"
                         THEN Append([cf.stack EXCEPT
                                         ![Len(cf.stack)].calls = @ + 1],
                                     NextFrame)
                         ELSE FlowRest,
                      !.sig = r.sig,
                      !.ev = Event(FlowTop, cf.sig)]
    /\ UNCHANGED othersOfFlow

\* `for K in n` with n a Number.
ForOverNumber(n) ==
    /\ Running
    /\ ForBranch(FALSE, "number") = "number"
    /\ \E b \in {ForOnNumber(n)} :
          /\ b = "loop" => Len(cf.stack) < MaxNest
          /\ cf' = [cf EXCEPT
                      !.stack = IF b = "loop"
                                THEN Append(@, ForNumFrame(n, 0, <<0>>))
                                ELSE @,
                      !.sig = IF b = "error" THEN ForError(NonInteger)
                              ELSE NoSignal,
                      !.ev = IF b = "loop" THEN NoEvent
                             ELSE [frame |-> ForNumFrame(n, 0, <<>>),
                                   in |-> NoSignal, rest |-> cf.stack]]
    /\ UNCHANGED othersOfFlow

\* The block of the loop over a Number has no statement left.
ForNumberNext ==
    /\ Running
    /\ FlowTop.kind = "fornum"
    /\ \E st \in {ForNumAdvance(cf.stack)} :
          cf' = [cf EXCEPT !.stack = st,
                           !.ev = IF Len(st) < Len(cf.stack)
                                  THEN Event(FlowTop, NoSignal) ELSE NoEvent]
    /\ UNCHANGED othersOfFlow

\* The block of the loop over a Number yields.
YieldForNumber ==
    /\ Yielding
    /\ FlowTop.kind = "fornum"
    /\ \E r \in {LoopOnResult(cf.sig)} :
          cf' = [cf EXCEPT
                   !.stack = IF r.do = "advance" THEN ForNumAdvance(cf.stack)
                             ELSE FlowRest,
                   !.sig = r.sig,
                   !.ev = IF r.do = "advance"
                             /\ Len(ForNumAdvance(cf.stack)) = Len(cf.stack)
                          THEN NoEvent ELSE Event(FlowTop, cf.sig)]
    /\ UNCHANGED othersOfFlow

\* The statements around and inside the for loops: calls, if blocks and
\* the statements that yield.
NextAround ==
    \/ EnterCall
    \/ EnterIf
    \/ \E v \in Payloads : Statement("return", v)
    \/ Statement("break", "")
    \/ Statement("continue", "")
    \/ \E v \in Payloads : Statement("error", v)
    \/ BlockDone
    \/ YieldIf
    \/ YieldCall
    \/ ProgramEnd

NextIter ==
    \/ NextAround
    \/ \E kind \in CollKinds : ForOverIterator(kind)
    \/ \E kind \in CollKinds : ForKeyValueOverIterator(kind)
    \/ \E kind \in CollKinds : ForOverOther(kind)
    \/ NextReturns
    \/ ForIterAgain
    \/ YieldForIter

SpecIter == Init /\ [][NextIter]_vars

NextNum ==
    \/ NextAround
    \/ \E n \in ForNumbers : ForOverNumber(n)
    \/ ForNumberNext
    \/ YieldForNumber

SpecNum == Init /\ [][NextNum]_vars

\* The for loop an event's frame (a call of next) belongs to, and the
\* constructs around that loop.
EventLoop == cf.ev.rest[Len(cf.ev.rest)]
EventAround == SubSeq(cf.ev.rest, 1, Len(cf.ev.rest) - 1)

NonNegativeInteger(x) == x.cls = "int" /\ x.n >= 0

\* C14: `for K in n` with n a Number binds K to 0, 1, ..., n-1 in order
\* when n is a non-negative integer (no iteration for 0), and yields an
\* Error without running the body when n is negative, fractional, NaN or
\* infinite.
C14_NumericIteration ==
    cf.ev.frame.kind = "fornum" =>
       /\ \A i \in 1..Len(cf.ev.frame.bound) : cf.ev.frame.bound[i] = i - 1
       /\ (NonNegativeInteger(cf.ev.frame.coll) /\ cf.ev.in = NoSignal)
          => Len(cf.ev.frame.bound) = cf.ev.frame.coll.n
       /\ ~NonNegativeInteger(cf.ev.frame.coll)
          => /\ cf.ev.frame.bound = <<>>
             /\ cf.sig.k = "error"

\* ----------------------------------------------------------------- scopes
ScopeStep(envs, cur, ret, op) ==
    /\ sc' = [envs |-> envs, cur |-> cur, ret |-> ret, op |-> op]
    /\ UNCHANGED othersOfScope

ScopeOp(k, name, v, owner, res) ==
    [k |-> k, name |-> name, v |-> v, at |-> sc.cur, owner |-> owner,
     res |-> res]

\* AstBlock.eval: env = Environment(env).
EnterBlock ==
    /\ Len(sc.envs) < MaxEnvs
    /\ ScopeStep(Append(sc.envs, NewEnvironment(sc.cur)), Len(sc.envs) + 1,
                 Append(sc.ret, sc.cur), NoScopeOp)

\* The block, or the call, is over: execution is back where it came from.
LeaveBlock ==
    /\ sc.ret # <<>>
    /\ ScopeStep(sc.envs, sc.ret[Len(sc.ret)],
                 SubSeq(sc.ret, 1, Len(sc.ret) - 1), NoScopeOp)

\* call(): env = Environment(function.env), and the body is evaluated in
\* it.  Function.new(self, env) keeps the Environment a function
\* expression is evaluated in, so function.env is any Environment that
\* statements have run in, also one whose block is over.
CallFunction(f) ==
    /\ f \in 1..Len(sc.envs)
    /\ Len(sc.envs) < MaxEnvs
    /\ ScopeStep(Append(sc.envs, NewEnvironment(f)), Len(sc.envs) + 1,
                 Append(sc.ret, sc.cur), NoScopeOp)

\* AstStatementLet.eval: env.let(name, value).
ScopeLet(name, v) ==
    ScopeStep(Environment_let(sc.envs, sc.cur, name, v), sc.cur, sc.ret,
              ScopeOp("let", name, v, sc.cur, "ok"))

\* AstExpressionIdentifier.eval: env.get(name), an Error for None.
ScopeRead(name) ==
    \E v \in {Environment_get(sc.envs, sc.cur, name)} :
       ScopeStep(sc.envs, sc.cur, sc.ret,
                 ScopeOp("read", name, v, 0,
                         IF v = Absent THEN "error" ELSE "ok"))

\* AstStatementAssignment.eval with an identifier on the left: the store
\* of env.lookup(name) is written, an Error for None.
ScopeAssign(name, v) ==
    \E o \in {Environment_lookup(sc.envs, sc.cur, name)} :
       ScopeStep(IF o = 0 THEN sc.envs
                 ELSE [sc.envs EXCEPT ![o].store[name] = v],
                 sc.cur, sc.ret,
                 ScopeOp("assign", name, v, o,
                         IF o = 0 THEN "error" ELSE "ok"))

NextScope ==
    \/ EnterBlock
    \/ LeaveBlock
    \/ \E f \in 1..MaxEnvs : CallFunction(f)
    \/ \E name \in Names, v \in LetVals : ScopeLet(name, v)
    \/ \E name \in Names : ScopeRead(name)
    \/ \E name \in Names, v \in AssignVals : ScopeAssign(name, v)

SpecScope == Init /\ [][NextScope]_vars

\* The environments from e outwards that bind the name.
RECURSIVE ScopeChain(_, _)
ScopeChain(envs, e) ==
    IF e = 0 THEN <<>> ELSE <<e>> \o ScopeChain(envs, envs[e].outer)
Binders(envs, e, name) ==
    {i \in 1..Len(ScopeChain(envs, e)) :
        envs[ScopeChain(envs, e)[i]].store[name] # Absent}
\* The nearest of them (0: there is none).
Nearest(envs, e, name) ==
    IF Binders(envs, e, name) = {} THEN 0
    ELSE ScopeChain(envs, e)[Min(Binders(envs, e, name))]

\* C15: let writes the binding in the innermost scope only; a read gives
\* the binding of the nearest enclosing scope that has the name; an
\* assignment to an identifier writes the binding in the scope that owns
\* the name and makes no binding in a scope nearer than it; an assignment
\* to a name no scope of the chain binds is an Error and binds nothing.
C15_ScopeDiscipline ==
    [][/\ sc'.op.k = "let" =>
             sc'.envs = [sc.envs EXCEPT ![sc.cur].store[sc'.op.name] = sc'.op.v]
       /\ sc'.op.k = "read" =>
             /\ sc'.envs = sc.envs
             /\ \E o \in {Nearest(sc.envs, sc.cur, sc'.op.name)} :
                   IF o = 0 THEN sc'.op.res = "error"
                   ELSE /\ sc'.op.res = "ok"
                        /\ sc'.op.v = sc.envs[o].store[sc'.op.name]
       /\ sc'.op.k = "assign" =>
             \E o \in {Nearest(sc.envs, sc.cur, sc'.op.name)} :
                IF o = 0
                THEN sc'.op.res = "error" /\ sc'.envs = sc.envs
                ELSE /\ sc'.op.res = "ok"
                     /\ sc'.envs =
                           [sc.envs EXCEPT ![o].store[sc'.op.name] = sc'.op.v]
      ]_vars

\* An assignment in the body of a function called from the outermost
\* scope, two scopes inside the one that owns the name, has written the
\* owner's binding; the scope of the assignment has no binding of the name.
C15_Witness ==
    /\ sc.op.k = "assign"
    /\ sc.op.res = "ok"
    /\ sc.op.owner # sc.op.at
    /\ sc.ret = <<1>>
    /\ sc.envs[sc.op.at].outer # 1
    /\ sc.envs[sc.op.at].outer # sc.op.owner
    /\ sc.envs[sc.op.at].store[sc.op.name] = Absent
    /\ sc.envs[sc.op.owner].store[sc.op.name] = sc.op.v

\* The field names the modelled call and access expressions use: fields of
\* the map literals and names of builtin methods.
MethodNames == {"f", "g", "push", "count"}

\* C16: for every receiver and every field name m, the callee the call
\* expression `recv.m(...)` chooses is the value the access expression
\* `recv.m` yields, and the call fails with "invalid method access" only
\* when `recv.m` is an Error.
C16_CallAgreesWithDot ==
    \A x \in Vars :
       env[x] # 0 =>
          \A m \in MethodNames :
             \E callee \in {MethodLookup(Heap, env[x], m).fn},
                dot \in {EvalAccess(Heap, env[x], "dot", KeyF(m))} :
                /\ callee.found <=> dot.res = "ok"
                /\ callee.found => callee.val = dot.out

\* ------------------------------------------------------------ new T {..}
\* The program
\*   let T = type { .f = function(self) { return 42; } };
\*   let x = new T <brace literal>; println(x.f());
\* is given to the parser, which has reached the brace literal.
ParseStart(prefix, elems) ==
    /\ ps.st = "idle"
    /\ ps' = [st |-> "elements", prefix |-> prefix, src |-> elems,
              rest |-> elems, mode |-> ModeOfPrefix(prefix), out |-> ""]
    /\ UNCHANGED othersOfParse

\* One turn of the element loop.
ParseElement ==
    /\ ps.st = "elements"
    /\ ps.rest # <<>>
    /\ \E m \in {ModeAfterElem(ps.mode, ps.rest[1])} :
          ps' = [ps EXCEPT !.rest = Tail(@),
                           !.mode = m,
                           !.st = IF m = "error" THEN "done" ELSE @,
                           !.out = IF m = "error" THEN "ParseError" ELSE @]
    /\ UNCHANGED othersOfParse

\* The closing brace.
ParseBrace ==
    /\ ps.st = "elements"
    /\ ps.rest = <<>>
    /\ \E m \in {ParseAtBrace(ps.mode)} :
          ps' = [ps EXCEPT !.mode = m,
                           !.st = IF m = "error" THEN "done" ELSE "parsed",
                           !.out = IF m = "error" THEN "ParseError" ELSE @]
    /\ UNCHANGED othersOfParse

\* The parsed program is evaluated: AstExpressionNew.eval sets the meta of
\* the Map or Set to (a copy of) T, and x.f() finds f in the metamap of x
\* and calls it with a Reference to x.
RunParsed ==
    /\ ps.st = "parsed"
    /\ ps' = [ps EXCEPT !.st = "done", !.out = "42"]
    /\ UNCHANGED othersOfParse

\* The next program.
ParseReset ==
    /\ ps.st = "done"
    /\ ps' = NoParse
    /\ UNCHANGED othersOfParse

NextParse ==
    \/ \E prefix \in Prefixes, elems \in ElemLists(MaxElems) :
          ParseStart(prefix, elems)
    \/ ParseElement
    \/ ParseBrace
    \/ RunParsed
    \/ ParseReset

SpecParse == Init /\ [][NextParse]_vars

\* C17: the program with `new T {}`, an unprefixed empty brace literal,
\* parses, evaluates without error and prints 42.
C17_NewEmptyBraces ==
    (ps.st = "done" /\ ps.prefix = "" /\ ps.src = <<>>) => ps.out = "42"

\* ----------------------------------------------------------- import(...)
ImportEvent(outcome, target, before) ==
    [outcome |-> outcome, target |-> target, before |-> before]

\* builtin_import up to the evaluation of the file: the module fields are
\* saved and set for the target, and eval_file is called.  A missing file
\* falls through to the "not found" Error after the fields are restored; an
\* exception other than FileNotFoundError leaves builtin_import at once and
\* Builtin.call makes an Error of it.
ImportCall(target) ==
    /\ Len(im.loading) < MaxImports
    /\ \E r \in {eval_file(target)} :
          im' = IF r = "evaluate"
                THEN [module |-> ModuleInfo(target),
                      loading |-> Append(im.loading,
                                         [target |-> target,
                                          saved |-> im.module]),
                      ev |-> NoImportEvent]
                ELSE IF r = "FileNotFoundError"
                THEN [im EXCEPT !.ev = ImportEvent("not found", target,
                                                   im.module)]
                ELSE [im EXCEPT !.module = ModuleInfo(target),
                                !.ev = ImportEvent("exception", target,
                                                   im.module)]
    /\ UNCHANGED othersOfImport

\* The imported file has been evaluated, to a value or to an Error:
\* builtin_import restores the module fields and returns.
ImportReturn(outcome) ==
    /\ im.loading # <<>>
    /\ \E f \in {im.loading[Len(im.loading)]} :
          im' = [module |-> f.saved,
                 loading |-> SubSeq(im.loading, 1, Len(im.loading) - 1),
                 ev |-> ImportEvent(outcome, f.target, f.saved)]
    /\ UNCHANGED othersOfImport

NextImport ==
    \/ \E target \in GoodFiles \cup BadFiles \cup MissingFiles :
          ImportCall(target)
    \/ \E outcome \in {"value", "error"} : ImportReturn(outcome)

SpecImport == Init /\ [][NextImport]_vars

\* C18: whenever a call of import returns to the script, with the
\* module's value, a not-found Error, an evaluation Error of the imported
\* file or an Error made of a parse failure or another exception, the
\* path, file and directory entries of the module-info map are what they
\* were just before the call.
C18_ImportRestoresModule ==
    im.ev.outcome # "" => im.module = im.ev.before

\* ------------------------------------------------------------- =~ and !~
NoRead == [n |-> Number("int", 0), out |-> "", k |-> ""]

\* `lhs =~ rhs` or `lhs !~ rhs` is evaluated, both operands being values;
\* m is what the search gives for a String and a Regexp.
MatchOp(op, lhs, rhs, m) ==
    /\ Len(rx.hist) < MaxMatches
    /\ rx' = [rx EXCEPT
                !.slot = SlotAfter(rx.slot, lhs, rhs, m),
                !.hist = Append(@, [op |-> op,
                                    value |-> MatchValue(op, lhs, rhs, m),
                                    m |-> m,
                                    depth |-> rx.depth]),
                !.read = NoRead]
    /\ UNCHANGED othersOfRegexp

\* Execution enters the body of a called function, or returns from it.
RegexpEnter ==
    /\ rx.depth = 0
    /\ rx' = [rx EXCEPT !.depth = 1, !.read = NoRead]
    /\ UNCHANGED othersOfRegexp

RegexpLeave ==
    /\ rx.depth = 1
    /\ rx' = [rx EXCEPT !.depth = 0, !.read = NoRead]
    /\ UNCHANGED othersOfRegexp

\* re::group(n)
ReGroup(n) ==
    /\ \E r \in {builtin_re_group(rx.slot, n)} :
          rx' = [rx EXCEPT !.read = [n |-> n, out |-> r.out, k |-> r.k]]
    /\ UNCHANGED othersOfRegexp

NextRegexp ==
    \/ \E op \in {"=~", "!~"}, m \in Searches : MatchOp(op, "string", "regexp", m)
    \/ \E op \in {"=~", "!~"}, lhs \in OperandKinds, rhs \in OperandKinds :
          /\ ~(lhs = "string" /\ rhs = "regexp")
          /\ MatchOp(op, lhs, rhs, NoMatch)
    \/ RegexpEnter
    \/ RegexpLeave
    \/ \E n \in GroupArgs : ReGroup(n)

SpecRegexp == Init /\ [][NextRegexp]_vars

\* The operators evaluated so far whose operands were a String and a
\* Regexp, and the search of the most recent of them.
TypedOps == {i \in 1..Len(rx.hist) : rx.hist[i].value # "error"}
LastTyped ==
    rx.hist[CHOOSE i \in TypedOps : \A j \in TypedOps : j <= i].m

\* C19: re::group(n) reads the outcome of the most recently evaluated `=~`
\* or `!~` whose operands were a String and a Regexp, in whatever function
\* it was evaluated: group n of that match (Null for a group that took no
\* part) if the pattern matched, an Error if it did not match or no such
\* operator was evaluated yet; an operator that fails with an operand type
\* Error does not count.
C19_LastMatchSlot ==
    rx.read.k # "" =>
       IF TypedOps = {} THEN rx.read.k = "error"
       ELSE IF ~LastTyped.hit THEN rx.read.k = "error"
       ELSE IF is_integer(rx.read.n) /\ rx.read.n.n < Len(LastTyped.groups)
       THEN IF LastTyped.groups[rx.read.n.n + 1] = NoGroup
            THEN rx.read.k = "null"
            ELSE /\ rx.read.k = "string"
                 /\ rx.read.out = LastTyped.groups[rx.read.n.n + 1]
       ELSE rx.read.k = "error"

\* A `!~` matched in a function body, then an operator failed with an
\* operand type Error, and re::group(1), called outside the function, gives
\* group 1 of the match.
C19_Witness ==
    /\ Len(rx.hist) = 3
    /\ rx.hist[2].op = "!~"
    /\ rx.hist[2].value = "false"
    /\ rx.hist[2].depth = 1
    /\ rx.hist[3].value = "error"
    /\ rx.depth = 0
    /\ rx.read.n = Number("int", 1)
    /\ rx.read.k = "string"
    /\ rx.read.out = "b"

\* ------------------------------------------------- module initialisation
BootStmt == ModuleInit[bt.pc]
Booting(kind) == bt.pc <= Len(ModuleInit) /\ BootStmt.kind = kind

\* The evaluations that constructing the builtins in bs adds, in the
\* environment as it is before the statement takes effect.
RECURSIVE EvaluateAll(_, _)
EvaluateAll(evals, bs) ==
    IF bs = {} THEN evals
    ELSE LET b == CHOOSE x \in bs : TRUE
         IN EvaluateAll(Append(evals, Evaluation(b, bt.metas, bt.base)),
                        bs \ {b})

Construct(bs) ==
    [impl |-> [b \in SourceDefined |->
                  IF b \in bs THEN PostInit(b) ELSE bt.impl[b]],
     evals |-> EvaluateAll(bt.evals, bs \cap ImmediateBuiltins)]

\* _X_META = MetaMap(...)
BuildMetaMap ==
    /\ Booting("meta")
    /\ \E c \in {Construct(ConstructedBy(BootStmt))} :
          bt' = [bt EXCEPT !.pc = @ + 1,
                           !.metas = @ \cup {BootStmt.name},
                           !.impl = c.impl,
                           !.evals = c.evals]
    /\ UNCHANGED othersOfBoot

\* _ITERATOR = eval_source(_ITERATOR_SOURCE)
EvalIterator ==
    /\ Booting("eval")
    /\ bt' = [bt EXCEPT !.pc = @ + 1,
                        !.evals = Append(@, Evaluation(BootStmt.name,
                                                       bt.metas, bt.base))]
    /\ UNCHANGED othersOfBoot

\* BASE_ENVIRONMENT.let(name, value): the value is constructed, then bound.
BaseLet ==
    /\ Booting("let")
    /\ \E c \in {Construct(ConstructedBy(BootStmt))} :
          bt' = [bt EXCEPT !.pc = @ + 1,
                           !.base = @ \cup {BootStmt.name},
                           !.impl = c.impl,
                           !.evals = c.evals]
    /\ UNCHANGED othersOfBoot

\* initialize_builtin_from_source(value)
InitializeBuiltin ==
    /\ Booting("initialize")
    /\ bt' = [bt EXCEPT !.pc = @ + 1,
                        !.impl[BootStmt.name] = "closure",
                        !.evals = Append(@, Evaluation(BootStmt.name,
                                                       bt.metas, bt.base))]
    /\ UNCHANGED othersOfBoot

\* A script, run after the module is initialised, calls a source-defined
\* builtin: the sentinel's function returns an Error.
ScriptCall(b) ==
    /\ bt.pc > Len(ModuleInit)
    /\ Len(bt.calls) < MaxCalls
    /\ bt' = [bt EXCEPT !.calls = Append(@,
                  [builtin |-> b,
                   result |-> IF bt.impl[b] = "closure" THEN "called"
                              ELSE "EXPLICIT-UNINITIALIZED"])]
    /\ UNCHANGED othersOfBoot

NextBoot ==
    \/ BuildMetaMap
    \/ EvalIterator
    \/ BaseLet
    \/ InitializeBuiltin
    \/ \E b \in SourceDefined : ScriptCall(b)

SpecBoot == Init /\ [][NextBoot]_vars

\* The snippets the two-phase protocol covers.
TwoPhaseSnippets ==
    {IteratorPrototype} \cup {DeferredBuiltins[i] : i \in 1..Len(DeferredBuiltins)}

\* C20: each of the iterator prototype, vector::sorted, vector::iterator,
\* map::union, set::union, set::intersection, set::difference and range is
\* evaluated only when all primitive type metamaps and all top-level
\* bindings are installed, and once module initialisation has finished no
\* source-defined entry has the placeholder sentinel as its implementation.
C20_TwoPhaseBootstrap ==
    /\ \A i \in 1..Len(bt.evals) :
          bt.evals[i].snippet \in TwoPhaseSnippets =>
             /\ \A m \in 1..Len(PrimitiveMetas) :
                   PrimitiveMetas[m] \in bt.evals[i].metas
             /\ \A n \in 1..Len(BaseNames) : BaseNames[n] \in bt.evals[i].base
    /\ bt.pc > Len(ModuleInit) =>
          \A b \in SourceDefined : bt.impl[b] = "closure"

\* ------------------------------------------------------------ use counts
\* The container handles that point to storage s.
HandlesOn(H, s) ==
    {h \in HandleIds : IsContainerKind(H.hs[h].kind) /\ H.hs[h].data = s}

UsesCounted ==
    \A s \in StoreIds :
       IF stores[s].live
       THEN stores[s].uses = Cardinality(HandlesOn(Heap, s)) /\ stores[s].uses >= 1
       ELSE HandlesOn(Heap, s) = {}

\* A direct write to container variable x, whose handle pointed to storage
\* s.  The right-hand side is evaluated and copied first, so when it is a
\* container on s the mutator finds one more use.  With uses > 1 at that
\* moment the handle leaves s for a storage that did not exist and now has
\* uses = 1, and s loses exactly one use; with uses = 1 the handle stays on
\* s and no storage is created.  A statement that fails before its
\* copy-on-write step touches nothing; one that fails after it (an index
\* past the end) also drops the copy of the right-hand side, and a storage
\* left with no handle is released.
CowEffect(x) ==
    LET h == env[x]
        s == handles[h].data
        t == handles'[h].data
        rhs == last'.stmt.arg.x
        usesAtWrite ==
            stores[s].uses
               + (IF IsObj(rhs) /\ handles[rhs.v].data = s THEN 1 ELSE 0)
        left == (IF last'.res = "ok" THEN usesAtWrite ELSE stores[s].uses) - 1
        cloned == /\ t # s
                  /\ ~stores[t].live
                  /\ stores'[t].uses = 1
                  /\ IF left = 0 THEN ~stores'[s].live
                     ELSE stores'[s].uses = left
        untouched == /\ t = s
                     /\ \A u \in StoreIds : stores'[u].live => stores[u].live
    IN IF usesAtWrite > 1
       THEN IF last'.res = "ok" THEN cloned
            ELSE cloned \/ (untouched /\ stores'[s] = stores[s])
       ELSE untouched

\* C21: the uses counter of every storage equals the number of container
\* handles that point to it (at least 1 while it exists); a mutation through
\* a handle on storage with uses > 1 takes exactly one use from the old
\* storage and leaves the handle on a fresh clone with uses = 1, and a
\* mutation through a handle with uses = 1 clones nothing.
C21_UseCount ==
    /\ []UsesCounted
    /\ [][\A x \in CVars :
             (last'.op \in {"assign", "call"} /\ last'.tgt = x)
             => CowEffect(x)]_vars

\* A write succeeded on storage that two variables shared, and each of the
\* two now has a storage of its own with uses = 1.
C21_Witness ==
    /\ last.op \in {"assign", "call"}
    /\ last.res = "ok"
    /\ last.shared
    /\ env["v"] # 0
    /\ env["w"] # 0
    /\ handles[env["v"]].data # handles[env["w"]].data
    /\ stores[handles[env["v"]].data].uses = 1
    /\ stores[handles[env["w"]].data].uses = 1

\* --------------------------------------------------------- closure calls
CallOp(k, res, def, v, owner) ==
    [k |-> k, res |-> res, at |-> cl.cur, def |-> def, v |-> v,
     owner |-> owner]

\* call() on a Function whose env is function_env, with nparams parameters,
\* given nargs arguments: an Error for a different count, else the body is
\* evaluated in a new Environment.
ClosureCall(function_env, nparams, nargs) ==
    /\ function_env \in 1..Len(cl.envs)
    /\ Len(cl.envs) < MaxCallEnvs
    /\ IF nargs # nparams
       THEN cl' = [cl EXCEPT !.op = CallOp("call", "error", function_env,
                                           Absent, 0)]
       ELSE cl' = [envs |-> Append(cl.envs,
                                   CallEnvironment(function_env, cl.cur,
                                                   nparams)),
                   info |-> Append(cl.info, [def |-> function_env,
                                             caller |-> cl.cur]),
                   cur |-> Len(cl.envs) + 1,
                   ret |-> Append(cl.ret, cl.cur),
                   op |-> CallOp("call", "ok", function_env, Absent, 0)]
    /\ UNCHANGED othersOfCall

\* The body is over: execution is back in the caller.
ClosureReturn ==
    /\ cl.ret # <<>>
    /\ cl' = [cl EXCEPT !.cur = cl.ret[Len(cl.ret)],
                        !.ret = SubSeq(@, 1, Len(@) - 1),
                        !.op = CallOp("return", "ok", 0, Absent, 0)]
    /\ UNCHANGED othersOfCall

\* let x = 1; in the Environment statements run in.
BodyLet(name, v) ==
    /\ cl' = [cl EXCEPT !.envs = Environment_let(@, cl.cur, name, v),
                        !.op = CallOp("let", "ok", 0, v, cl.cur)]
    /\ UNCHANGED othersOfCall

\* x is read.
BodyRead(name) ==
    /\ \E v \in {Environment_get(cl.envs, cl.cur, name)} :
          cl' = [cl EXCEPT !.op =
                    CallOp("read", IF v = Absent THEN "error" ELSE "ok", 0, v,
                           Environment_lookup(cl.envs, cl.cur, name))]
    /\ UNCHANGED othersOfCall

\* x = 2;
BodyAssign(name, v) ==
    /\ \E o \in {Environment_lookup(cl.envs, cl.cur, name)} :
          cl' = [cl EXCEPT !.envs = IF o = 0 THEN @
                                    ELSE [@ EXCEPT ![o].store[name] = v],
                           !.op = CallOp("assign",
                                         IF o = 0 THEN "error" ELSE "ok", 0, v,
                                         o)]
    /\ UNCHANGED othersOfCall

NextCall ==
    \/ \E f \in 1..MaxCallEnvs, np \in ParamCounts, na \in ArgCounts :
          ClosureCall(f, np, na)
    \/ ClosureReturn
    \/ \E name \in Names, v \in LetVals : BodyLet(name, v)
    \/ \E name \in Names : BodyRead(name)
    \/ \E name \in Names, v \in AssignVals : BodyAssign(name, v)

SpecCall == Init /\ [][NextCall]_vars

\* The Environment e with the definition-time Environments behind it: for
\* the Environment of a call, those of the called function's env.
RECURSIVE LexChain(_)
LexChain(e) ==
    IF cl.info[e].def = 0 THEN {e} ELSE {e} \cup LexChain(cl.info[e].def)

\* C22: a call with an argument count other than the parameter count is an
\* Error and runs nothing of the body (no Environment is created, execution
\* stays in the caller, no variable changes); any other call binds the
\* parameters in a fresh Environment whose parent is the function's
\* captured Environment; a read or assignment in a body finds its variable
\* only in that Environment or the definition-time chain behind it, never
\* in an Environment of a caller outside that chain, and changes no
\* Environment outside it.
C22_LexicalArityExact ==
    [][/\ (cl'.op.k = "call" /\ cl'.op.res = "error")
          => /\ cl'.envs = cl.envs
             /\ cl'.cur = cl.cur
             /\ cl'.ret = cl.ret
       /\ (cl'.op.k = "call" /\ cl'.op.res = "ok")
          => /\ Len(cl'.envs) = Len(cl.envs) + 1
             /\ SubSeq(cl'.envs, 1, Len(cl.envs)) = cl.envs
             /\ cl'.cur = Len(cl'.envs)
             /\ cl'.envs[cl'.cur].outer = cl'.op.def
       /\ cl'.op.k \in {"read", "assign"}
          => /\ cl'.op.owner \in LexChain(cl.cur) \cup {0}
             /\ cl'.op.res = "ok" <=> cl'.op.owner # 0
             /\ (cl'.op.k = "read" /\ cl'.op.owner # 0)
                => cl'.op.v = cl.envs[cl'.op.owner].store["x"]
             /\ \A e \in 1..Len(cl.envs) :
                   e \notin LexChain(cl.cur) => cl'.envs[e] = cl.envs[e]]_vars

\* A body reads x while the caller, which is not in the function's
\* definition-time chain, has a local x: the read is an Error.
C22_Witness ==
    /\ cl.op.k = "read"
    /\ cl.op.res = "error"
    /\ cl.info[cl.cur].caller # 0
    /\ cl.info[cl.cur].caller \notin LexChain(cl.cur)
    /\ cl.envs[cl.info[cl.cur].caller].store["x"] # Absent

\* ---------------------------------------------------- values used as keys
\* let a = Map{};  let a = Set{};
HashBuild(slot, kind) ==
    /\ hv[slot] = NoValue
    /\ hv' = [hv EXCEPT ![slot] = Container(kind, <<>>)]
    /\ UNCHANGED othersOfHash

\* a.insert(k, ..) / a.insert(k): a new key goes last.
HashInsert(slot, k) ==
    /\ hv[slot].kind \in {"map", "set"}
    /\ ~hv.out.done
    /\ Len(hv[slot].elems) < MaxEntries
    /\ \A i \in 1..Len(hv[slot].elems) : hv[slot].elems[i] # k
    /\ hv' = [hv EXCEPT ![slot].elems = Append(@, k)]
    /\ UNCHANGED othersOfHash

\* let a = <function expression ast evaluated in Environment e>;
HashFunction(slot, ast, e) ==
    /\ hv[slot] = NoValue
    /\ hv' = [hv EXCEPT ![slot] = Function_new(ast, e)]
    /\ UNCHANGED othersOfHash

\* let m = Map{a: 1}; m[b]     (let s = {a}; s.contains(b) does the same)
HashLookup ==
    /\ hv.a # NoValue
    /\ hv.b # NoValue
    /\ ~hv.out.done
    /\ hv' = [hv EXCEPT !.out = [done |-> TRUE, eq |-> Eq(hv.a, hv.b),
                                 found |-> DictHas(hv.a, hv.b)]]
    /\ UNCHANGED othersOfHash

NextHash ==
    \/ \E slot \in {"a", "b"}, kind \in {"map", "set"} : HashBuild(slot, kind)
    \/ \E slot \in {"a", "b"}, k \in HashKeys : HashInsert(slot, k)
    \/ \E slot \in {"a", "b"}, ast \in Asts, e \in Envs :
          HashFunction(slot, ast, e)
    \/ HashLookup

SpecHash == Init /\ [][NextHash]_vars

\* C23: two values that are equal have the same hash, so a Map keyed by one
\* is found under the other (and a Set containing one contains the other).
C23_EqualImpliesSameHash ==
    /\ Eq(hv.a, hv.b) => Hash(hv.a) = Hash(hv.b)
    /\ (hv.out.done /\ hv.out.eq) => hv.out.found

\* ------------------------------------------------------ for x.& in v { }
\* The literals iterated by reference: vectors of containers, and the maps
\* and sets, for which a key-reference is an Error.
RefLiterals ==
    {lit \in Literals :
        lit.kind = "vector" => \A i \in 1..Len(lit.elems) : lit.elems[i].k = "lit"}

\* for x.& in v { ... the head, as for a loop by value; a key-reference over
\* a Map or a Set is an Error and nothing is iterated.
ForRefBegin(x) ==
    /\ loop.st = "none"
    /\ env[x] # 0
    /\ IF KindOfVar(x) = "vector" THEN ForBegin(x)
       ELSE /\ last' = [op |-> "for", tgt |-> x, stmt |-> NoStmt,
                        res |-> "error", shared |-> IsShared(Heap, env[x])]
            /\ loop' = [NoLoop EXCEPT !.st = "done"]
            /\ UNCHANGED <<handles, stores, env, refOf, steps, othersOfHeap>>

\* The start of an iteration: loop_env.let(name, Reference.new(x)) for the
\* next object of the shallow copy.
ForStepRef ==
    /\ loop.st = "active"
    /\ loop.pos < Len(loop.snap)
    /\ HeapHasRoom
    /\ \E t \in {NewReference(Heap, loop.snap[loop.pos + 1].v)} :
          \E lp \in {[loop EXCEPT !.pos = @ + 1, !.cur = ObjV(t.out),
                                  !.seen = Append(@, Visit(t.H, loop.keys,
                                                          loop.pos + 1,
                                                          loop.snap[loop.pos + 1]))]} :
             \E C \in {Collect(t.H, Roots(env) \cup LoopRoots(lp))} :
                /\ handles' = C.hs
                /\ stores' = C.ss
                /\ loop' = lp
    /\ last' = [op |-> "for_step", tgt |-> "", stmt |-> NoStmt, res |-> "ok",
                shared |-> FALSE]
    /\ UNCHANGED <<env, refOf, steps, othersOfHeap>>

\* x.name(arg); in the body, x being the loop variable.  seen keeps what
\* the element reads as through x after the call.
LoopVarCall(name, arg) ==
    /\ InBody
    /\ steps < MaxSteps
    /\ HeapHasRoom
    /\ \E a \in {ExecCall(Heap, loop.cur, name, arg)} :
          \E lp \in {[loop EXCEPT !.seen[loop.pos] =
                         Visit(a.H, loop.keys, loop.pos, loop.snap[loop.pos])]} :
             \E C \in {Collect(a.H, Roots(env) \cup LoopRoots(lp))} :
                /\ handles' = C.hs
                /\ stores' = C.ss
                /\ loop' = lp
                /\ last' = [op |-> "loopvar_call", tgt |-> "x",
                            stmt |-> CallStmt(name, arg), res |-> a.res,
                            shared |-> FALSE]
    /\ steps' = steps + 1
    /\ UNCHANGED <<env, refOf, othersOfHeap>>

\* Scripts: let v = <literal>; let w = v; for x.& in v { v.push(2);
\* x.push(2); ... } with pushes onto v, method calls on x and writes to w in
\* any order and number.
NextForRef ==
    \/ \E lit \in RefLiterals : LetLiteral("v", lit)
    \/ loop.st = "none" /\ LetCopy("w", "v")
    \/ ForRefBegin("v")
    \/ ForStepRef
    \/ ForEnd
    \/ InBody /\ MethodCall("v", "push", Arg(0, "f", NumV(2)))
    \/ InBody /\ DirectWrite("w")
    \/ \E st \in CallStmts("vector", {NumV(2)}) : LoopVarCall(st.name, st.arg)

SpecForRef == Init /\ [][NextForRef]_vars

\* C24: in `for x.& in v` over a Vector, what a mutation through x in the
\* iteration that visits element i made of that element is what v[i] reads
\* as after the loop, also when the body pushes onto v itself.
C24_ByReferenceAliases ==
    loop.st = "done" =>
       \A i \in 1..Len(loop.seen) :
          loop.seen[i] # loop.begin[i] =>
             ObsV(Heap, GetItem(Heap, env["v"], IdxF(i - 1)).out)
                = loop.seen[i].val

\* ------------------------------------------------------- new expressions
\* The operand expressions of `new T <expression>` that yield a stored
\* value: the variable x, its first element x[0], and r.* for a reference r.
NewOperands == {"ident", "index", "deref"}

\* AstExpressionIdentifier.eval returns the object bound to the name, the
\* access expressions the element or referent object itself.
EvalOperand(H, x, form) ==
    IF form = "ident" THEN [res |-> "ok", out |-> ObjV(env[x])]
    ELSE EvalAccess(H, env[x], form, IdxF(0))

\* expression.meta = copy(meta): the metamap is set on the object the
\* operand expression returned; the copy of a MetaMap is the MetaMap.
SetMeta(H, h, meta) ==
    [H EXCEPT !.hs[h].meta = CopyHandle(H, meta).out]

\* let y = new T <operand>;   AstExpressionNew.eval followed by the copy a
\* let takes of its initialiser.  An operand that is not a container is
\* outside the heap model.
LetNew(y, t, x, form) ==
    /\ steps < MaxSteps
    /\ HeapHasRoom
    /\ env[y] = 0
    /\ env[t] # 0
    /\ env[x] # 0
    /\ handles[env[t]].kind = "metamap"
    /\ \E a \in {EvalOperand(Heap, x, form)} :
          IF a.res = "error"
          THEN Finish(Heap, env, "new", x, NoStmt, "error", FALSE)
          ELSE /\ IsObj(a.out)
               /\ handles[a.out.v].kind # "metamap"
               /\ \E c \in {CopyHandle(SetMeta(Heap, a.out.v, env[t]),
                                       a.out.v)} :
                     Finish(c.H, [env EXCEPT ![y] = c.out], "new", x, NoStmt,
                            "ok", FALSE)
    /\ UNCHANGED refOf

\* Scripts with `new`: let v = <literal>; let T = type <map literal>;
\* let r = v.&; let w = new T v; (or of v[0], or of r.*), and writes to v
\* and w before and after.
NextNew ==
    \/ \E lit \in Literals : LetLiteral("v", lit)
    \/ \E lit \in MapLiterals : LetTypeLiteral("T", lit)
    \/ LetRef("r", "v")
    \/ \E form \in NewOperands : LetNew("w", "T", "v", form)
    \/ LetNew("w", "T", "r", "deref")
    \/ \E x \in CVars : DirectWrite(x)

SpecNew == Init /\ [][NextNew]_vars

\* C25: `new T <expression>` leaves the value stored in the variable as it
\* was: what a script reads of v (kind, metamap, keys, elements and their
\* metamaps) is the same before and after a successful `new` whose operand
\* is v, v[0] or r.* with r a reference to v.
C25_NewKeepsOperand ==
    [][(last'.op = "new" /\ last'.res = "ok")
          => ObsH([hs |-> handles', ss |-> stores'], env["v"])
                = ObsH(Heap, env["v"])]_vars

\* ------------------------------------------------------------- try/catch
\* try { error x; } catch e {     AstStatementError.eval wraps the object
\* the expression returned in an Error (Error.__init__ keeps a Value as it
\* is), and AstStatementTry.eval binds result.value in the scope of the
\* catch block with Environment.let, which stores the object it is given.
ErrorCatch(e, x) ==
    /\ env[e] = 0
    /\ env[x] # 0
    /\ Finish(Heap, [env EXCEPT ![e] = env[x]], "let", e, NoStmt, "ok", FALSE)
    /\ UNCHANGED refOf

\* }   the end of the catch block: its scope, and with it e, is dropped.
CatchEnd(e) ==
    /\ env[e] # 0
    /\ last.op # "let"
    /\ Finish(Heap, [env EXCEPT ![e] = 0], "let", e, NoStmt, "ok", FALSE)
    /\ UNCHANGED refOf

\* Scripts that raise the container of v and write to the caught value w in
\* the catch block, next to scripts that write to w after `let w = v`.
NextCatch ==
    \/ \E lit \in Literals : LetLiteral("v", lit)
    \/ ErrorCatch("w", "v")
    \/ LetCopy("w", "v")
    \/ CatchEnd("w")
    \/ DirectWrite("w")

SpecCatch == Init /\ [][NextCatch]_vars

\* C26: a write applied directly to the value bound by `catch e` (e.push(x),
\* e[i] = x, ...) after `error v` leaves what is read through v unchanged.
C26_CaughtPayloadIndependent ==
    [][(last'.op \in {"assign", "call"} /\ last'.tgt = "w" /\ env["v"] # 0)
          => ObsH(Heap', env'["v"]) = ObsH(Heap, env["v"])]_vars

\* --------------------------------------------------------- return values
\* f() where f is `function() { return g; }`: AstStatementReturn.eval wraps
\* the object AstExpressionIdentifier.eval returned for g in a Return, and
\* call() hands result.value to the caller.
CallResult(H, g) == ObjV(env[g])

\* f()[i] = rhs;  f().k = rhs;   the store of the assignment target is the
\* value the call returned.
ResultAssign(g, form, field, rhs) ==
    /\ steps < MaxSteps
    /\ HeapHasRoom
    /\ env[g] # 0
    /\ \E a \in {ExecAssign(Heap, CallResult(Heap, g), form, field, rhs)} :
          Finish(a.H, env, "result_assign", g, AssignStmt(form, field, rhs),
                 a.res, IsShared(Heap, env[g]))
    /\ UNCHANGED refOf

\* f().name(arg);   the implicit self is a Reference to the value the call
\* returned.
ResultCall(g, name, arg) ==
    /\ steps < MaxSteps
    /\ HeapHasRoom
    /\ env[g] # 0
    /\ \E a \in {ExecCall(Heap, CallResult(Heap, g), name, arg)} :
          Finish(a.H, env, "result_call", g, CallStmt(name, arg), a.res,
                 IsShared(Heap, env[g]))
    /\ UNCHANGED refOf

\* let w = f();   the let copies the value the call returned.
LetResult(x, g) ==
    /\ HeapHasRoom
    /\ env[x] = 0
    /\ env[g] # 0
    /\ \E c \in {CopyVal(Heap, CallResult(Heap, g))} :
          Finish(c.H, [env EXCEPT ![x] = c.out.v], "let", x, NoStmt, "ok",
                 FALSE)
    /\ UNCHANGED refOf

\* Scripts with f = function() { return v; }: let v = <literal>;
\* let w = f(); writes to w, and writes applied to f() itself.
NextReturn ==
    \/ \E lit \in Literals : LetLiteral("v", lit)
    \/ LetResult("w", "v")
    \/ DirectWrite("w")
    \/ \E st \in AssignStmts(KindOfVar("v")), rhs \in RhsValues(Heap, env) :
          ResultAssign("v", st.form, st.field, rhs)
    \/ \E st \in CallStmts(KindOfVar("v"), RhsValues(Heap, env)) :
          ResultCall("v", st.name, st.arg)

SpecReturn == Init /\ [][NextReturn]_vars

\* C27: a write applied to the result of f() without binding it first
\* (f().push(x), f()[i] = x, ...), where f returns the container variable v
\* of its defining scope, leaves what is read through v unchanged.
C27_ReturnedContainerIndependent ==
    [][last'.op \in {"result_assign", "result_call"}
          => ObsH(Heap', env'["v"]) = ObsH(Heap, env["v"])]_vars

\* ------------------------------------------------------------- type names
\* let x = <literal or constructor of kind>;
BuildValue(kind) ==
    /\ Len(tn.vals) < MaxValues
    /\ Len(tn.names) = Len(tn.vals)
    /\ tn' = [tn EXCEPT !.kinds = Append(@, kind),
                        !.vals = Append(@, ValueNew(ClassOf(kind)))]
    /\ UNCHANGED othersOfTypename

\* typename(x) for the value built last (builtin_typename).
builtin_typename ==
    /\ Len(tn.names) < Len(tn.vals)
    /\ tn' = [tn EXCEPT !.names = Append(@, typename(tn.vals[Len(tn.vals)]))]
    /\ UNCHANGED othersOfTypename

NextTypename ==
    \/ \E kind \in Kinds : BuildValue(kind)
    \/ builtin_typename

SpecTypename == Init /\ [][NextTypename]_vars

\* C28: for a value built by a literal or a constructor of kind K, both
\* typename(value) and the name of the singleton metamap the value carries
\* are K.
C28_TypeNameIsKind ==
    \A i \in 1..Len(tn.names) :
       /\ tn.names[i] = tn.kinds[i]
       /\ MetaName(tn.vals[i].meta) = tn.kinds[i]

\* ------------------------------------------------- loops over an iterator
\* let x = range(bgn, end);
LetRange(x, bgn, end) ==
    /\ HeapHasRoom
    /\ env[x] = 0
    /\ \E t \in {RangeIteratorType(Heap)} :
          \E a \in {range_iterator_init(t.H, t.out, bgn, end)} :
             IF a.res = "error"
             THEN Finish(Heap, env, "let", x, NoStmt, "error", FALSE)
             ELSE \E c \in {CopyHandle(a.H, a.out)} :
                     Finish(c.H, [env EXCEPT ![x] = c.out], "let", x, NoStmt,
                            "ok", FALSE)
    /\ UNCHANGED refOf

\* for k in x {    where the metamap of x has a next: the loop holds a
\* Reference to the copy of the collection.
IterBegin(x) ==
    /\ loop.st \in {"none", "done"}
    /\ Len(runs) < MaxLoops
    /\ HeapHasRoom
    /\ env[x] # 0
    /\ MetaGet(Heap, env[x], "next").found
    /\ \E c \in {ForCollection(Heap, env[x])} :
          \E r \in {NewReference(c.H, c.out)} :
             /\ handles' = r.H.hs
             /\ stores' = r.H.ss
             /\ loop' = [NoLoop EXCEPT !.st = "iter", !.coll = r.out,
                                       !.keys = <<x>>,
                                       !.begin = <<ObsH(Heap, env[x])>>]
    /\ last' = [op |-> "for", tgt |-> x, stmt |-> NoStmt, res |-> "ok",
                shared |-> IsShared(Heap, env[x])]
    /\ UNCHANGED <<env, refOf, steps, othersOfHeap>>

\* iterated = call(metafunction, [reference]) returned a value: it is bound
\* to the loop variable and the body runs.
IterStep ==
    /\ loop.st = "iter"
    /\ HeapHasRoom
    /\ \E a \in {range_iterator_next(Heap, loop.coll)} :
          /\ a.res = "ok"
          /\ \E lp \in {[loop EXCEPT !.pos = @ + 1, !.cur = a.out,
                                     !.seen = Append(@, a.out.v)]} :
                \E C \in {Collect(a.H, Roots(env) \cup LoopRoots(lp))} :
                   /\ handles' = C.hs
                   /\ stores' = C.ss
                   /\ loop' = lp
    /\ last' = [op |-> "for_step", tgt |-> "", stmt |-> NoStmt, res |-> "ok",
                shared |-> FALSE]
    /\ UNCHANGED <<env, refOf, steps, othersOfHeap>>

\* iterated is the end-of-iteration error: the loop ends, the Reference and
\* the copy of the collection die.
IterEnd ==
    /\ loop.st = "iter"
    /\ range_iterator_next(Heap, loop.coll).res = "eoi"
    /\ \E C \in {Collect(Heap, Roots(env))} :
          /\ handles' = C.hs
          /\ stores' = C.ss
          /\ runs' = Append(runs, [before |-> loop.begin[1],
                                   after |-> ObsH(C, env[loop.keys[1]]),
                                   seen |-> loop.seen])
    /\ loop' = [NoLoop EXCEPT !.st = "done"]
    /\ last' = [op |-> "for_end", tgt |-> "", stmt |-> NoStmt, res |-> "ok",
                shared |-> FALSE]
    /\ UNCHANGED <<env, refOf, steps, othersOfRuns>>

\* Scripts with an iterator: let v = range(bgn, end); let w = v; loops
\* `for x in v { }` one after the other; w.cur = n; before, between and
\* inside the loops.
NextRange ==
    \/ \E bgn \in 0..MaxRange, end \in 0..MaxRange : LetRange("v", bgn, end)
    \/ LetCopy("w", "v")
    \/ IterBegin("v")
    \/ IterStep
    \/ IterEnd
    \/ \E n \in 0..MaxRange : Assign("w", "dot", KeyF("cur"), NumV(n))

SpecRange == Init /\ [][NextRange]_vars

\* The elements range(cur, end) yields.
RangeOf(it) ==
    [k \in 1..(it.elems[2].v - it.elems[1].v) |-> it.elems[1].v + k - 1]

\* C29: a completed `for x in it` over the iterator of variable it leaves
\* what is read through it (its cur and end fields, its metamap) as it was
\* before the loop and yields the whole range, so every loop over it yields
\* the same elements.
C29_ForAdvancesCopy ==
    \A i \in 1..Len(runs) :
       /\ runs[i].after = runs[i].before
       /\ runs[i].seen = RangeOf(runs[i].before)
       /\ \A j \in 1..Len(runs) : runs[j].seen = runs[i].seen

\* Two loops over the same iterator have each yielded two elements while a
\* copy of the iterator was held in w.
C29_Witness ==
    /\ Len(runs) = 2
    /\ Len(runs[2].seen) = 2
    /\ env["w"] # 0

\* ------------------------------------------------------------ loop scopes
LoopScopeStep(new) ==
    /\ fl' = new
    /\ UNCHANGED othersOfLoopScope

\* for x in <collection of len elements> {   loop_env = Environment(env).
LoopStart(len) ==
    /\ fl.st = "idle"
    /\ LoopScopeStep([fl EXCEPT !.envs = Append(@, NewEnvironment(1)),
                                !.loop_env = Len(fl.envs) + 1,
                                !.len = len, !.st = "head", !.op = NoLoopOp])

\* The next iteration: loop_env.let(x, element), then the block starts in
\* Environment(loop_env).
IterationStart ==
    /\ fl.st = "head"
    /\ fl.iter < fl.len
    /\ \E b \in {IterationBind(fl.envs, fl.loop_env, "x", Elem(fl.iter + 1))} :
          LoopScopeStep([fl EXCEPT !.envs = Append(b.envs, NewEnvironment(b.at)),
                                   !.block = Len(b.envs) + 1,
                                   !.iter = @ + 1, !.st = "body",
                                   !.op = NoLoopOp])

\* fs.push(function() { return x; });   Function.new(self, env) with env the
\* Environment of the block.
MakeClosure ==
    /\ fl.st = "body"
    /\ Len(fl.closures) < MaxClosures
    /\ LoopScopeStep([fl EXCEPT !.closures =
                                   Append(@, [env |-> fl.block,
                                              made |-> fl.iter]),
                                !.op = NoLoopOp])

\* fs[c]();   in the body, between iterations or after the loop.
ClosureRead(c) ==
    /\ c \in 1..Len(fl.closures)
    /\ LoopScopeStep([fl EXCEPT !.op =
                         [k |-> "call", fn |-> c,
                          v |-> CallReading(fl.envs, fl.closures[c].env, "x")]])

\* }   the block of the iteration is over.
BodyEnd ==
    /\ fl.st = "body"
    /\ LoopScopeStep([fl EXCEPT !.block = 0, !.st = "head", !.op = NoLoopOp])

\* The collection is exhausted: the statement after the loop runs in the
\* Environment the loop statement ran in.
LoopEnd ==
    /\ fl.st = "head"
    /\ fl.iter = fl.len
    /\ LoopScopeStep([fl EXCEPT !.st = "after", !.op = NoLoopOp])

\* println(x);   after the loop: env.get(x) in the program scope.
ReadAfter ==
    /\ fl.st = "after"
    /\ LoopScopeStep([fl EXCEPT !.op =
                         [k |-> "read", fn |-> 0,
                          v |-> Environment_get(fl.envs, 1, "x")]])

NextLoopScope ==
    \/ \E len \in 0..MaxTrips : LoopStart(len)
    \/ IterationStart
    \/ MakeClosure
    \/ \E c \in 1..MaxClosures : ClosureRead(c)
    \/ BodyEnd
    \/ LoopEnd
    \/ ReadAfter

SpecLoopScope == Init /\ [][NextLoopScope]_vars

\* C30: every iteration binds the induction variable in the one scope of
\* the loop and the body runs in a child scope of it, so a closure made in
\* the body that reads the induction variable returns the element of the
\* latest iteration that has started, whichever iteration made it; after
\* the loop the induction variable is not defined in the scope of the loop
\* statement.
C30_SharedLoopScope ==
    /\ \A c \in 1..Len(fl.closures) :
          fl.envs[fl.closures[c].env].outer = fl.loop_env
    /\ fl.iter > 0 => fl.envs[fl.loop_env].store["x"] = Elem(fl.iter)
    /\ fl.op.k = "call" => fl.op.v = Elem(fl.iter)
    /\ fl.op.k = "read" => fl.op.v = Absent

\* The closure made in the first iteration is called after the loop has
\* ended and returns the element of the second iteration.
C30_Witness ==
    /\ fl.st = "after"
    /\ fl.op.k = "call"
    /\ fl.closures[fl.op.fn].made = 1
    /\ fl.iter = 2
    /\ fl.op.v = Elem(2)

\* C2: a reference variable, also one made by copying a reference, aliases
\* the object of the variable it was taken from; and after a write through
\* it (`r.name(x)`, `r.f = x`, `r.*[i] = x`) that variable reads exactly as
\* after the same write applied to the variable itself, whether or not its
\* storage was shared.
C2_ReferenceWriteVisible ==
    [][/\ \A r \in RVars :
             env'[r] # 0 =>
                /\ handles'[env'[r]].kind = "reference"
                /\ refOf'[r] \in CVars
                /\ handles'[env'[r]].data = env'[refOf'[r]]
       /\ \A r \in RVars :
             (/\ env[r] # 0
              /\ last'.tgt = r
              /\ \/ last'.op \in {"call", "nested_assign"}
                 \/ last'.op = "assign" /\ last'.stmt.form = "dot")
             => ObsH(Heap', env'[refOf[r]]) =
                   ObsH(ExecStmt(Heap, ObjV(env[refOf[r]]), last'.stmt).H,
                        env[refOf[r]])]_vars

\* A write through q, a copy of the reference r, succeeded while the storage
\* of its referent was shared with the other variable, and the referent now
\* reads differently from that other variable.
C2_Witness ==
    /\ last.tgt = "q"
    /\ last.op \in {"assign", "call", "nested_assign"}
    /\ last.res = "ok"
    /\ last.shared
    /\ env["v"] # 0
    /\ env["w"] # 0
    /\ ObsH(Heap, env["v"]) # ObsH(Heap, env["w"])
====
